---------------------------- MODULE Spec2Model ----------------------------
(***************************************************************************)
(* A model of the Eliza/Solana SDK: the reply rate limiter                 *)
(* (MessageReplyHandler), the decision pipeline (ElizaSolanaSDK,           *)
(* SentimentAnalyzer, ElizaAgent), the polling loops (TwitterBot) and the  *)
(* mint validation gate (MemeCoinCreator).                                 *)
(*                                                                         *)
(* Time is counted in ticks of half an hour (HOUR = 2 ticks).  Scores and  *)
(* confidences are counted in hundredths (0.6 is 60).  A JavaScript value  *)
(* that is undefined/absent is modelled by the number or string named      *)
(* next to its use.                                                        *)
(***************************************************************************)
EXTENDS Integers, Sequences, FiniteSets, Bags, TLC

VARIABLES
    config,         \* the validated SDKConfig: maxRepliesPerHour, minSentimentScore
    now,            \* Date.now(), in ticks
    timerDue,       \* the tick at which the setInterval reset timer is next due
    clientReady,    \* TwitterBot.client is set (TwitterBot.initialize succeeded)
    limiter,        \* MessageReplyHandler: hourlyReplyCount, lastHourReset, replyHistory
    replies,        \* the number of replyToTweet calls awaiting their dispatch,
                    \* by author
    replyLog,       \* history: the replies recorded, oldest first (see Prune)
    hist,           \* history: the most recent replyToTweet call (gate), canReply()
                    \* call (canReply) and resolved dispatch (dispatch)
    mint,           \* a MemeCoinCreator.createToken call: its argument, where it
                    \* stands, whether it reached the mint collaborator, its result
    call,           \* a call of the scoring pipeline or of formatReply studied on
                    \* its own: its inputs, where it stands, its results
    isRunning,      \* ElizaSolanaSDK.isRunning
    isMonitoring,   \* TwitterBot.isMonitoring
    startCalls,     \* the number of start() calls made so far
    callbacks,      \* the lengths of TwitterBot.mentionCallbacks and trendCallbacks
    loops,          \* the bag of polling loops: each awaits a search, the list
                    \* of trends, or its timer
    processedTweets,\* ElizaSolanaSDK.processedTweets
    returnedIds,    \* history: the ids for which a processTwitterMessage call
                    \* has returned
    runs            \* the bag of handler runs that have not ended

limiterVars == <<now, timerDue, limiter, replies, replyLog, hist>>
mintVars == <<mint>>
callVars == <<call>>
sdkVars == <<isRunning, isMonitoring, startCalls, callbacks, loops,
             processedTweets, returnedIds, runs>>

vars == <<config, clientReady, limiterVars, mintVars, callVars, sdkVars>>

---------------------------------------------------------------------------
(* Bounds of the model *)

MaxTime == 5
MaxInFlight == 2
MaxRepliesCfg == 2
TimerLag == 1
MaxStarts == 1
MaxRuns == 2
MaxTrends == 1
MaxContentLen == 284
MaxAttempts == 4
MaxRestarts == 2

(* Program constants, scaled: an hour is two ticks; Date.now() is positive *)

HOUR == 2
StartTime == 1

Authors == {"alice", "bob"}

\* trends.slice(0, 5), part_000 line 242.
TopTrends == 5

\* defaultConfig.memeCoin.minSentimentScore, in hundredths.
DefaultMinSentiment == 60

---------------------------------------------------------------------------
(* MessageReplyHandler: the rate limiter                                   *)

\* A replyHistory entry of 0 stands for a missing Map entry (undefined).
NoReply == 0

resetHourlyCounter(L, t) ==
    [L EXCEPT !.hourlyReplyCount = 0, !.lastHourReset = t]

\* canReply() without its lazy reset.
canReplyState_NoLazyReset(L, t) == L

\* The state canReply() leaves behind: the lazy reset of lines 130-132.
canReplyState(L, t) ==
    IF t - L.lastHourReset > HOUR THEN resetHourlyCounter(L, t) ELSE L

\* canReply() comparing with <= instead of <.
canReply_OffByOne(L, t, maxRepliesPerHour) ==
    canReplyState(L, t).hourlyReplyCount <= maxRepliesPerHour

\* The value canReply() returns (line 134), read after the lazy reset.
canReply(L, t, maxRepliesPerHour) ==
    canReplyState(L, t).hourlyReplyCount < maxRepliesPerHour

\* hasRecentReply() forgetting the replies recorded before the last reset.
hasRecentReply_SinceReset(L, userId, t) ==
    LET lastReply == L.replyHistory[userId]
    IN  IF lastReply = NoReply THEN FALSE
        ELSE lastReply >= L.lastHourReset /\ t - lastReply < HOUR

hasRecentReply(L, userId, t) ==
    LET lastReply == L.replyHistory[userId]
    IN  IF lastReply = NoReply THEN FALSE ELSE t - lastReply < HOUR

updateReplyTracking(L, userId, t) ==
    [L EXCEPT !.replyHistory[userId] = t,
              !.hourlyReplyCount = @ + 1]

\* replyToTweet updating the tracking whatever the dispatch reported.
afterDispatch_Always(L, userId, t, success) == updateReplyTracking(L, userId, t)

\* Lines 55-58: the tracking is updated only if the dispatch succeeded.
afterDispatch(L, userId, t, success) ==
    IF success THEN updateReplyTracking(L, userId, t) ELSE L

\* What replyToTweet decides before it awaits the dispatch (lines 29-53):
\* "rate" (Rate limit exceeded), "recent" (Recent reply to this user),
\* "throws" (twitterBot.replyToTweet throws at once: no client) or "dispatch".
replyGate(L, userId, t, maxRepliesPerHour, hasClient) ==
    IF ~canReply(L, t, maxRepliesPerHour) THEN "rate"
    ELSE IF hasRecentReply(canReplyState(L, t), userId, t) THEN "recent"
    ELSE IF ~hasClient THEN "throws"
    ELSE "dispatch"

---------------------------------------------------------------------------
(* Strings: a JavaScript string is the sequence of its characters          *)

UpperCase == <<"A", "B", "C", "D", "E", "F", "G", "H", "I", "J", "K", "L", "M",
               "N", "O", "P", "Q", "R", "S", "T", "U", "V", "W", "X", "Y", "Z">>
LowerCase == <<"a", "b", "c", "d", "e", "f", "g", "h", "i", "j", "k", "l", "m",
               "n", "o", "p", "q", "r", "s", "t", "u", "v", "w", "x", "y", "z">>

IsUpper(c) == \E i \in 1..Len(UpperCase) : UpperCase[i] = c

toLowerCaseChar(c) ==
    IF IsUpper(c) THEN LowerCase[CHOOSE i \in 1..Len(UpperCase) : UpperCase[i] = c]
    ELSE c

\* String.prototype.toLowerCase
toLowerCase(str) == [i \in 1..Len(str) |-> toLowerCaseChar(str[i])]

\* String.prototype.toUpperCase
toUpperCase(str) ==
    [i \in 1..Len(str) |->
        IF \E k \in 1..Len(LowerCase) : LowerCase[k] = str[i]
        THEN UpperCase[CHOOSE k \in 1..Len(LowerCase) : LowerCase[k] = str[i]]
        ELSE str[i]]

\* String.prototype.includes
includes(str, word) ==
    \E i \in 0..(Len(str) - Len(word)) : SubSeq(str, i + 1, i + Len(word)) = word

\* A string of n characters c.
Repeat(c, n) == [i \in 1..n |-> c]

---------------------------------------------------------------------------
(* MessageReplyHandler.formatReply                                         *)

\* Line 179: the length limit of a tweet, and where the text is cut.
TweetLimit == 280
CutAt == 277

Ellipsis == <<".", ".", ".">>

\* `@${message.authorUsername}`
Mention(authorUsername) == <<"@">> \o authorUsername

\* The same, cut at the limit itself.
formatReply_CutAtLimit(authorUsername, content) ==
    LET reply == IF includes(content, Mention(authorUsername))
                 THEN content
                 ELSE Mention(authorUsername) \o <<" ">> \o content
    IN  IF Len(reply) > TweetLimit
        THEN SubSeq(reply, 1, TweetLimit) \o Ellipsis
        ELSE reply

\* formatReply (170-184).
formatReply(authorUsername, content) ==
    LET reply == IF includes(content, Mention(authorUsername))
                 THEN content
                 ELSE Mention(authorUsername) \o <<" ">> \o content
    IN  IF Len(reply) > TweetLimit
        THEN SubSeq(reply, 1, CutAt) \o Ellipsis
        ELSE reply

---------------------------------------------------------------------------
(* MemeCoinCreator: the validation gate before the mint collaborator       *)

\* Line 110.
bannedWords == << <<"s", "c", "a", "m">>, <<"r", "u", "g">>,
                  <<"h", "a", "c", "k">>, <<"s", "t", "e", "a", "l">> >>

\* /^[A-Z]{3,6}$/.test(symbol), line 102.
symbolMatches(symbol) ==
    /\ Len(symbol) >= 3
    /\ Len(symbol) <= 6
    /\ \A i \in 1..Len(symbol) : IsUpper(symbol[i])

\* The same string, letter case kept.
bannedContent_CaseSensitive(data) ==
    data.name \o <<" ">> \o data.description \o <<" ">> \o data.text

\* The string searched for banned words, line 111.
bannedContent(data) ==
    toLowerCase(data.name \o <<" ">> \o data.description \o <<" ">> \o data.text)

\* validateMemeCoinData (84-123): "ok", or the check that failed, in the
\* order of the code.  data.sentimentScore is metadata.sentimentScore and
\* data.text is metadata.twitterContext.text.
validateMemeCoinData(data, minSentimentScore) ==
    IF data.sentimentScore < minSentimentScore THEN "sentiment"
    ELSE IF Len(data.name) < 3 \/ Len(data.name) > 32 THEN "name"
    ELSE IF ~symbolMatches(data.symbol) THEN "symbol"
    ELSE IF \E w \in 1..Len(bannedWords) : includes(bannedContent(data), bannedWords[w])
         THEN "banned"
    ELSE "ok"

\* createToken up to its call of the mint collaborator (24-55): whether
\* solanaManager.createTokenWithBondingCurve is called.
reachesCollaborator(data, minSentimentScore) ==
    validateMemeCoinData(data, minSentimentScore) = "ok"

\* \w of a regular expression: a letter, a digit or the underscore.
IsWordChar(c) ==
    \/ IsUpper(c)
    \/ \E i \in 1..Len(LowerCase) : LowerCase[i] = c
    \/ c \in {"0", "1", "2", "3", "4", "5", "6", "7", "8", "9", "_"}

\* \s of a regular expression.
IsSpace(c) == c \in {" ", "\t", "\n"}

RECURSIVE trimStart(_)
trimStart(str) ==
    IF str # <<>> /\ IsSpace(Head(str)) THEN trimStart(Tail(str)) ELSE str

RECURSIVE trimEnd(_)
trimEnd(str) ==
    IF str # <<>> /\ IsSpace(str[Len(str)])
    THEN trimEnd(SubSeq(str, 1, Len(str) - 1))
    ELSE str

\* String.prototype.trim
trim(str) == trimEnd(trimStart(str))

\* .replace(/[^\w\s-]/g, ''), helpers.ts line 54.
removeSpecial(str) ==
    SelectSeq(str, LAMBDA c : IsWordChar(c) \/ IsSpace(c) \/ c = "-")

RECURSIVE normalizeWhitespace(_)
\* .replace(/\s+/g, ' '), helpers.ts line 55.
normalizeWhitespace(str) ==
    IF str = <<>> THEN <<>>
    ELSE IF IsSpace(Head(str))
         THEN <<" ">> \o normalizeWhitespace(trimStart(str))
         ELSE <<Head(str)>> \o normalizeWhitespace(Tail(str))

\* String.prototype.substring(0, n)
substring0(str, n) == SubSeq(str, 1, IF Len(str) < n THEN Len(str) ELSE n)

\* formatTokenName (helpers.ts 51-57).
formatTokenName(name) ==
    substring0(normalizeWhitespace(removeSpecial(trim(name))), 32)

\* sanitizeTokenData (128-142), the two fields that go into tokenParams
\* (lines 45-46).
sanitizeTokenData(data) ==
    [name |-> formatTokenName(data.name),
     symbol |-> substring0(toUpperCase(data.symbol), 6)]

\* No tokenParams: the mint collaborator was not called.
NoParams == [name |-> <<>>, symbol |-> <<>>]

NoData ==
    [name |-> <<>>, symbol |-> <<>>, description |-> <<>>, text |-> <<>>,
     sentimentScore |-> 0]

NoMint ==
    [pc |-> "none", data |-> NoData, called |-> FALSE, params |-> NoParams,
     result |-> "none"]

\* No call is studied on its own.
NoCall == [pc |-> "none"]

\* The token concepts createToken is tried on.
MintNames ==
    { Repeat("a", 2), Repeat("a", 3), Repeat("a", 32), Repeat("a", 33),
      <<"S", "c", "A", "m", " ", "C", "o", "i", "n">>,
      <<"D", "i", "a", "m", "o", "n", "d">>,
      <<"$", "$", "$">>,
      <<" ", "t", "o", " ", " ", "t", "h", "e", " ", "m", "o", "o", "n", "!">> }
MintSymbols ==
    { <<"A", "B">>, <<"A", "B", "C">>, <<"W", "A", "G", "M", "I">>,
      <<"w", "a", "g", "m", "i">>, <<"A", "B", "1">>,
      <<"A", "B", "C", "D", "E", "F">>, <<"A", "B", "C", "D", "E", "F", "G">> }
MintDescriptions ==
    { <<"f", "u", "n">>, <<"n", "o", " ", "R", "U", "G", "s">> }
MintTexts ==
    { <<"g", "m">>, <<"a", " ", "S", "C", "A", "M", "!">>, <<"s", "c">> }
MintScores == {59, 60, 61}

MintInputs ==
    [name : MintNames, symbol : MintSymbols, description : MintDescriptions,
     text : MintTexts, sentimentScore : MintScores]

---------------------------------------------------------------------------
(* The tweets the searches can return                                      *)

Ids == {"t1", "t2"}

\* TwitterMessage (types, 36-52).  views = 0 stands for an impression count
\* that is absent;
\* hoursSincePost is (Date.now() - createdAt) in whole hours.
Tweets ==
    [id \in Ids |->
        IF id = "t1"
        THEN [id |-> "t1", authorId |-> "alice", text |-> <<"g", "m">>,
              likes |-> 150, retweets |-> 45, replies |-> 23, views |-> 2500,
              hashtags |-> 1, hoursSincePost |-> 1]
        ELSE [id |-> "t2", authorId |-> "bob",
              text |-> <<"n", "o", " ", "R", "U", "G">>,
              likes |-> 150, retweets |-> 30, replies |-> 0, views |-> 0,
              hashtags |-> 0, hoursSincePost |-> 5]]

---------------------------------------------------------------------------
(* SentimentAnalyzer                                                       *)

\* The same, without the lower bound.
Clamp_UpperOnly(x) == IF x > 100 THEN 100 ELSE x

\* Math.max(0, Math.min(1, x)), in hundredths.
Clamp(x) == IF x < 0 THEN 0 ELSE IF x > 100 THEN 100 ELSE x

\* A reply of the language model: ok = FALSE is a failed call or a reply that
\* does not parse; a field of 0 or <<>> is a field the reply leaves out.
SentimentReplies ==
    { [ok |-> FALSE, score |-> 0, label |-> "", confidence |-> 0],
      [ok |-> TRUE, score |-> 60, label |-> "positive", confidence |-> 90],
      [ok |-> TRUE, score |-> 90, label |-> "positive", confidence |-> 90] }

\* The same, with the defaults of an empty reply in the catch.
analyzeSentiment_EmptyReplyDefaults(reply) ==
    IF ~reply.ok
    THEN [score |-> 50, label |-> "neutral", confidence |-> 50]
    ELSE [score |-> Clamp(IF reply.score = 0 THEN 50 ELSE reply.score),
          label |-> IF reply.label = "" THEN "neutral" ELSE reply.label,
          confidence |-> Clamp(IF reply.confidence = 0 THEN 50
                               ELSE reply.confidence)]

\* analyzeSentiment (68-109).  x || 0.5 takes 0.5 for a field that is absent
\* and for one that is 0.
analyzeSentiment(reply) ==
    IF ~reply.ok
    THEN [score |-> 50, label |-> "neutral", confidence |-> 10]
    ELSE [score |-> Clamp(IF reply.score = 0 THEN 50 ELSE reply.score),
          label |-> IF reply.label = "" THEN "neutral" ELSE reply.label,
          confidence |-> Clamp(IF reply.confidence = 0 THEN 50
                               ELSE reply.confidence)]

\* Line 295.
memeKeywords ==
    { <<"l", "o", "l">>,
      <<"l", "m", "a", "o">>,
      <<"b", "a", "s", "e", "d">>,
      <<"c", "h", "a", "d">>,
      <<"g", "i", "g", "a", "c", "h", "a", "d">>,
      <<"s", "i", "g", "m", "a">>,
      <<"w", "a", "g", "m", "i">>,
      <<"n", "g", "m", "i">>,
      <<"d", "i", "a", "m", "o", "n", "d", " ", "h", "a", "n", "d", "s">>,
      <<"p", "a", "p", "e", "r", " ", "h", "a", "n", "d", "s">>,
      <<"m", "o", "o", "n">>,
      <<"l", "a", "m", "b", "o">>,
      <<"h", "o", "d", "l">>,
      <<"a", "p", "e">>,
      <<"d", "e", "g", "e", "n">>,
      <<"g", "m">>,
      <<"g", "n">>,
      <<"f", "r", "e", "n">>,
      <<"p", "e", "p", "e">>,
      <<"w", "o", "j", "a", "k">>,
      <<"c", "o", "p", "e">>,
      <<"s", "e", "e", "t", "h", "e">> }

\* analyzeContentCharacteristics (279-317), the three results that are used.
hasMemeKeywords(message) ==
    \E keyword \in memeKeywords : includes(toLowerCase(message.text), keyword)

hasHashtags(message) == message.hashtags > 0

\* engagementRate > 0.05, lines 123 and 143.
highEngagementRate(message) ==
    /\ message.views # 0
    /\ 100 * (message.likes + message.retweets + message.replies)
          > 5 * message.views

\* emojiRegex.test(message.text), lines 289-290.  The literal is written
\* with the u flag and has character-class ranges that are out of order
\* ([\u{1F300}-\\u{1F5FF}] runs from U+1F300 down to the backslash), which
\* ECMAScript rejects with a SyntaxError.  "throws": the engine raises it
\* when the literal is evaluated, inside the try of analyzeViralPotential.
\* "match" and "noMatch": the answers of an engine that takes the literal.
EmojiTestOutcomes == {"throws", "match", "noMatch"}

\* One contribution to the viral score: its entry in factors and its points.
Factor(fired, label, points) ==
    IF fired THEN << [label |-> label, points |-> points] >> ELSE << >>

\* Lines 130-175: the contributions that fire, in the order of the code.
viralContributions(message, emojiTest, peakHour) ==
    LET totalEngagement == message.likes + message.retweets + message.replies
    IN  (IF message.likes > 100
         THEN Factor(TRUE, "High like count", 30)
         ELSE Factor(message.likes > 10, "Moderate engagement", 10))
        \o Factor(message.retweets > 20, "Strong retweet activity", 20)
        \o Factor(highEngagementRate(message), "High engagement rate", 15)
        \o Factor(emojiTest = "match", "Contains emojis", 10)
        \o Factor(hasHashtags(message), "Uses trending hashtags", 15)
        \o Factor(hasMemeKeywords(message), "Contains meme language", 15)
        \o Factor(message.hoursSincePost < 2 /\ totalEngagement > 50,
                  "Rapid early engagement", 20)
        \o Factor(peakHour, "Posted during peak hours", 10)

RECURSIVE SumPoints(_)
SumPoints(contributions) ==
    IF contributions = << >> THEN 0
    ELSE Head(contributions).points + SumPoints(Tail(contributions))

\* analyzeViralPotential (114-186); peakHour is isInTrendingTime().
analyzeViralPotential(message, emojiTest, peakHour) ==
    IF emojiTest = "throws"
    THEN [score |-> 30, factors |-> << "Analysis error" >>]
    ELSE LET contributions == viralContributions(message, emojiTest, peakHour)
         IN  [score |-> Clamp(SumPoints(contributions)),
              factors |-> [i \in 1..Len(contributions) |-> contributions[i].label]]

\* No token suggestion (null, or the field left undefined).
NoSuggestion == [name |-> <<>>, symbol |-> <<>>, concept |-> <<>>]

SuggestionReplies ==
    { [ok |-> FALSE, name |-> <<>>, symbol |-> <<>>, concept |-> <<>>],
      [ok |-> TRUE, name |-> <<"D", "i", "a", "m", "o", "n", "d">>,
       symbol |-> <<"w", "a", "g", "m", "i">>, concept |-> <<"f", "u", "n">>],
      [ok |-> TRUE, name |-> <<"D", "i", "a", "m", "o", "n", "d">>,
       symbol |-> <<"a", "b">>, concept |-> <<"f", "u", "n">>],
      [ok |-> TRUE, name |-> <<"D", "i", "a", "m", "o", "n", "d">>,
       symbol |-> <<>>, concept |-> <<"f", "u", "n">>] }

\* generateTokenSuggestion (227-274).
generateTokenSuggestion(reply) ==
    IF reply.ok /\ reply.name # <<>> /\ reply.symbol # <<>> /\ reply.concept # <<>>
    THEN [name |-> reply.name, symbol |-> toUpperCase(reply.symbol),
          concept |-> reply.concept]
    ELSE NoSuggestion

\* The gate of line 34.
suggestionGate_NotStrict(sentiment, viral) == sentiment >= 60 /\ viral >= 50

suggestionGate(sentiment, viral) == sentiment > 60 /\ viral > 50

\* The same, asking for a token suggestion whatever the scores are.
analyzeTrend_NoGate(message, sentimentReply, emojiTest, peakHour, suggestionReply) ==
    [sentiment |-> analyzeSentiment(sentimentReply).score,
     viralPotential |-> analyzeViralPotential(message, emojiTest, peakHour).score,
     tokenSuggestion |-> generateTokenSuggestion(suggestionReply)]

\* analyzeTrend (19-63).  Its catch is not reached: each of the calls it
\* makes catches its own errors.
analyzeTrend(message, sentimentReply, emojiTest, peakHour, suggestionReply) ==
    LET sentiment == analyzeSentiment(sentimentReply).score
        viral == analyzeViralPotential(message, emojiTest, peakHour).score
    IN  [sentiment |-> sentiment,
         viralPotential |-> viral,
         tokenSuggestion |->
             IF suggestionGate(sentiment, viral)
             THEN generateTokenSuggestion(suggestionReply)
             ELSE NoSuggestion]

NoTrend == [sentiment |-> 0, viralPotential |-> 0, tokenSuggestion |-> NoSuggestion]

---------------------------------------------------------------------------
(* ElizaAgent                                                              *)

StructuredReplies ==
    { [ok |-> FALSE, confidence |-> 0, createToken |-> FALSE,
       replyToTweet |-> FALSE] }
    \cup [ok : {TRUE}, confidence : {80, 90}, createToken : BOOLEAN,
          replyToTweet : BOOLEAN]

\* The same, with the neutral defaults of the scoring fall-backs in the catch.
getStructuredAnalysis_NeutralFallback(reply) ==
    IF ~reply.ok
    THEN [confidence |-> 50, createToken |-> FALSE, replyToTweet |-> FALSE]
    ELSE [confidence |-> Clamp(IF reply.confidence = 0 THEN 50
                               ELSE reply.confidence),
          createToken |-> reply.createToken,
          replyToTweet |-> reply.replyToTweet]

\* getStructuredAnalysis (485-553): confidence and actions.
getStructuredAnalysis(reply) ==
    IF ~reply.ok
    THEN [confidence |-> 50, createToken |-> FALSE, replyToTweet |-> TRUE]
    ELSE [confidence |-> Clamp(IF reply.confidence = 0 THEN 50
                               ELSE reply.confidence),
          createToken |-> reply.createToken,
          replyToTweet |-> reply.replyToTweet]

\* processMessage (416-457): the ElizaResponse.  hasActions = FALSE is a
\* response without the actions field (the catch of line 446); the text of
\* the response is never empty.
processMessage(runtimeOk, structuredReply) ==
    IF ~runtimeOk
    THEN [confidence |-> 10, hasActions |-> FALSE, createToken |-> FALSE,
          replyToTweet |-> FALSE]
    ELSE LET structured == getStructuredAnalysis(structuredReply)
         IN  [confidence |-> structured.confidence, hasActions |-> TRUE,
              createToken |-> structured.createToken,
              replyToTweet |-> structured.replyToTweet]

\* Which of the two awaited calls of processMessage failed: the runtime's
\* processActions (line 422; the structured analysis is then not asked for)
\* or the language model's reply to getStructuredAnalysis (521-527).
elizaOutcome(runtimeOk, structuredReply) ==
    IF ~runtimeOk THEN "runtimeFailed"
    ELSE IF ~structuredReply.ok THEN "structuredFailed"
    ELSE "ok"

---------------------------------------------------------------------------
(* ElizaSolanaSDK: the decision                                            *)

\* No tokenConcept (the field is undefined).
NoConcept ==
    [name |-> <<>>, symbol |-> <<>>, description |-> <<>>, text |-> <<>>,
     sentimentScore |-> 0, viralScore |-> 0]

\* The return value of lines 90-95.
AlreadyProcessed ==
    [shouldReply |-> FALSE, shouldCreateToken |-> FALSE, confidence |-> 0,
     hasReplyContent |-> FALSE, tokenConcept |-> NoConcept]

\* No decision yet: processTwitterMessage has not returned (confidence -1).
NoAnalysis ==
    [shouldReply |-> FALSE, shouldCreateToken |-> FALSE, confidence |-> -1,
     hasReplyContent |-> FALSE, tokenConcept |-> NoConcept]

\* processTwitterMessage, lines 117-139: the AIAnalysis built from the two
\* collaborators' results.
buildAnalysis(message, trendAnalysis, elizaResponse) ==
    LET shouldReply == elizaResponse.hasActions /\ elizaResponse.replyToTweet
        shouldCreateToken == elizaResponse.hasActions /\ elizaResponse.createToken
    IN  [shouldReply |-> shouldReply,
         shouldCreateToken |-> shouldCreateToken,
         confidence |-> elizaResponse.confidence,
         hasReplyContent |-> TRUE,
         tokenConcept |->
             IF shouldCreateToken /\ trendAnalysis.tokenSuggestion # NoSuggestion
             THEN [name |-> trendAnalysis.tokenSuggestion.name,
                   symbol |-> trendAnalysis.tokenSuggestion.symbol,
                   description |-> trendAnalysis.tokenSuggestion.concept,
                   text |-> message.text,
                   sentimentScore |-> trendAnalysis.sentiment,
                   viralScore |-> trendAnalysis.viralPotential]
             ELSE NoConcept]

\* The handlers' conditions for minting: lines 235 and 247.
wantsMint_NoConfidenceBar(kind, analysis) ==
    IF kind = "mention"
    THEN analysis.shouldCreateToken /\ analysis.tokenConcept # NoConcept
    ELSE analysis.shouldCreateToken

wantsMint(kind, analysis) ==
    IF kind = "mention"
    THEN analysis.shouldCreateToken /\ analysis.tokenConcept # NoConcept
    ELSE analysis.shouldCreateToken /\ analysis.confidence > 80

\* createMemeCoin (160-185) up to its first await that leaves the process:
\* "threw" (no concept, line 162), the validation error of createToken, or
\* "called" (the mint collaborator was called).
beginMint(analysis, minSentimentScore) ==
    IF analysis.tokenConcept = NoConcept THEN "threw"
    ELSE IF reachesCollaborator(analysis.tokenConcept, minSentimentScore)
         THEN "called"
         ELSE validateMemeCoinData(analysis.tokenConcept, minSentimentScore)

---------------------------------------------------------------------------
(* History kept for the properties                                         *)

\* The replies of the log recorded since the last reset of the counter.
InWindow(log) == {i \in 1..Len(log) : log[i].window}

\* The replies of the log that are less than an hour old at t.
Recent(log, t) == {i \in 1..Len(log) : t - log[i].time < HOUR}

\* The replies of the log to userId that are less than an hour old at t.
RecentTo(log, userId, t) == {i \in Recent(log, t) : log[i].author = userId}

ClearWindow(log) == [i \in 1..Len(log) |-> [log[i] EXCEPT !.window = FALSE]]

RECURSIVE Prune(_, _)
\* Drops the entries that no property reads any more at t: an hour old or
\* older, and recorded before the last reset of the counter.
Prune(log, t) ==
    IF log = <<>> THEN <<>>
    ELSE IF t - Head(log).time >= HOUR /\ ~Head(log).window
         THEN Prune(Tail(log), t)
         ELSE <<Head(log)>> \o Prune(Tail(log), t)

\* The log after a canReply() call at t: a lazy reset closes the window.
LogAfterCanReply(L, log, t) ==
    IF canReplyState(L, t) # L THEN Prune(ClearWindow(log), t) ELSE log

\* elapsed: more than an hour had passed since lastHourReset at the call;
\* wasFull: hourlyReplyCount had reached the maximum before the call;
\* didReset: the call left hourlyReplyCount = 0 and lastHourReset = now.
CanReplyRecord(L, t, maxRepliesPerHour) ==
    [called |-> TRUE,
     elapsed |-> t - L.lastHourReset > HOUR,
     wasFull |-> L.hourlyReplyCount >= maxRepliesPerHour,
     result |-> canReply(L, t, maxRepliesPerHour),
     didReset |-> /\ canReplyState(L, t).hourlyReplyCount = 0
                  /\ canReplyState(L, t).lastHourReset = t]

\* cool: a reply to the author was recorded less than an hour before the call;
\* full: maxRepliesPerHour replies were recorded since the last reset.
GateRecord(L, log, userId, t, maxRepliesPerHour, hasClient) ==
    [called |-> TRUE,
     author |-> userId,
     cool |-> RecentTo(log, userId, t) # {},
     full |-> Cardinality(InWindow(LogAfterCanReply(L, log, t))) >= maxRepliesPerHour,
     gate |-> replyGate(L, userId, t, maxRepliesPerHour, hasClient)]

NoHistory ==
    [gate |-> [called |-> FALSE, author |-> "alice", cool |-> FALSE,
               full |-> FALSE, gate |-> "none"],
     canReply |-> [called |-> FALSE, elapsed |-> FALSE, wasFull |-> FALSE,
                   result |-> FALSE, didReset |-> FALSE],
     dispatch |-> "none"]

InFlight(r) == r["alice"] + r["bob"]

---------------------------------------------------------------------------
(* The rate limiter on its own: replyToTweet calls, the clock, the timer   *)

\* new ElizaSolanaSDK(config), lines 31-47, and new TwitterBot(...).
NewSDK ==
    /\ isRunning = FALSE
    /\ isMonitoring = FALSE
    /\ startCalls = 0
    /\ callbacks = [mention |-> 0, trend |-> 0]
    /\ loops = EmptyBag
    /\ processedTweets = {}
    /\ returnedIds = {}
    /\ runs = EmptyBag

\* new MessageReplyHandler(...): lines 10-23.
NewLimiter ==
    /\ now = StartTime
    /\ timerDue = StartTime + HOUR
    /\ limiter = [hourlyReplyCount |-> 0,
                  lastHourReset |-> StartTime,
                  replyHistory |-> [a \in Authors |-> NoReply]]
    /\ replies = [a \in Authors |-> 0]
    /\ replyLog = <<>>
    /\ hist = NoHistory

InitLimiter ==
    /\ config \in [maxRepliesPerHour : 1..MaxRepliesCfg,
                    minSentimentScore : {DefaultMinSentiment}]
    /\ clientReady \in BOOLEAN
    /\ NewLimiter
    /\ mint = NoMint
    /\ call = NoCall
    /\ NewSDK

\* replyToTweet up to its first await (MessageReplyHandler.ts 28-53).
BeginReply(userId) ==
    /\ InFlight(replies) < MaxInFlight
    /\ LET gate == replyGate(limiter, userId, now, config.maxRepliesPerHour, clientReady)
       IN  /\ limiter' = canReplyState(limiter, now)
           /\ replyLog' = LogAfterCanReply(limiter, replyLog, now)
           /\ hist' = [hist EXCEPT
                 !.canReply = CanReplyRecord(limiter, now, config.maxRepliesPerHour),
                 !.gate = GateRecord(limiter, replyLog, userId, now,
                                     config.maxRepliesPerHour, clientReady)]
           /\ replies' = IF gate = "dispatch"
                         THEN [replies EXCEPT ![userId] = @ + 1]
                         ELSE replies
    /\ UNCHANGED <<config, now, timerDue, clientReady, mintVars, callVars, sdkVars>>

\* The same, for a caller that awaits each reply before starting the next.
BeginReplySeq(userId) ==
    /\ InFlight(replies) = 0
    /\ BeginReply(userId)

\* twitterBot.replyToTweet resolves (part_000 85-112), then lines 55-60.
DispatchReturn(userId, success) ==
    /\ replies[userId] > 0
    /\ replies' = [replies EXCEPT ![userId] = @ - 1]
    /\ limiter' = afterDispatch(limiter, userId, now, success)
    /\ replyLog' = IF success
                   THEN Append(replyLog, [author |-> userId,
                                          time |-> now, window |-> TRUE])
                   ELSE replyLog
    /\ hist' = [hist EXCEPT !.dispatch = IF success THEN "success" ELSE "failed"]
    /\ UNCHANGED <<config, now, timerDue, clientReady, mintVars, callVars, sdkVars>>

\* The setInterval callback of the constructor (line 22).
TimerReset ==
    /\ now >= timerDue
    /\ limiter' = resetHourlyCounter(limiter, now)
    /\ timerDue' = now + HOUR
    /\ replyLog' = Prune(ClearWindow(replyLog), now)
    /\ UNCHANGED <<config, now, clientReady, replies, hist, mintVars, callVars, sdkVars>>

\* MessageReplyHandler.getStats (283-290) calls canReply().
GetStats ==
    /\ limiter' = canReplyState(limiter, now)
    /\ replyLog' = LogAfterCanReply(limiter, replyLog, now)
    /\ hist' = [hist EXCEPT
          !.canReply = CanReplyRecord(limiter, now, config.maxRepliesPerHour)]
    /\ UNCHANGED <<config, now, timerDue, clientReady, replies, mintVars, callVars, sdkVars>>

\* Time passes; the timer callback runs at most TimerLag ticks late.
Tick ==
    /\ now < MaxTime
    /\ now < timerDue + TimerLag
    /\ now' = now + 1
    /\ replyLog' = Prune(replyLog, now + 1)
    /\ UNCHANGED <<config, timerDue, clientReady, limiter, replies, hist, mintVars, callVars, sdkVars>>

NextLimiter ==
    \/ \E a \in Authors : BeginReply(a)
    \/ \E a \in Authors, ok \in BOOLEAN : DispatchReturn(a, ok)
    \/ TimerReset
    \/ GetStats
    \/ Tick

SpecLimiter == InitLimiter /\ [][NextLimiter]_vars

NextLimiterSeq ==
    \/ \E a \in Authors : BeginReplySeq(a)
    \/ \E a \in Authors, ok \in BOOLEAN : DispatchReturn(a, ok)
    \/ TimerReset
    \/ GetStats
    \/ Tick

SpecLimiterSeq == InitLimiter /\ [][NextLimiterSeq]_vars

---------------------------------------------------------------------------
(* Properties of the rate limiter                                          *)

\* C4, as stated: no rolling hour holds more than maxRepliesPerHour
\* recorded replies (the replies of the log less than an hour old all lie
\* in one rolling hour).
C4_RollingHourLimit ==
    Cardinality(Recent(replyLog, now)) <= config.maxRepliesPerHour

\* C4, amended: between two consecutive resets of the counter at most
\* maxRepliesPerHour replies are recorded, and a replyToTweet call made when
\* maxRepliesPerHour replies have been recorded since the last reset is
\* rejected with "Rate limit exceeded" and does not reach the dispatch.
C4_WindowLimit ==
    /\ Cardinality(InWindow(replyLog)) <= config.maxRepliesPerHour
    /\ hist.gate.full => hist.gate.gate = "rate"

C4_Witness ==
    /\ hist.gate.full
    /\ hist.gate.gate = "rate"
    /\ Cardinality(InWindow(replyLog)) = config.maxRepliesPerHour

\* C5: a canReply() call made more than an hour after lastHourReset resets
\* hourlyReplyCount to 0, sets lastHourReset to the current time and returns
\* true.
C5_WindowRecovery ==
    hist.canReply.elapsed => hist.canReply.didReset /\ hist.canReply.result

C5_Witness ==
    /\ hist.canReply.elapsed
    /\ hist.canReply.wasFull
    /\ hist.canReply.result

\* C6: a replyToTweet call for an author to whom a reply was recorded less
\* than an hour earlier is rejected before the dispatch, whatever the
\* hourly count is.
C6_AuthorCooldown ==
    hist.gate.cool => hist.gate.gate \in {"rate", "recent"}

C6_Witness ==
    /\ hist.gate.cool
    /\ hist.gate.gate = "recent"
    /\ limiter.hourlyReplyCount = 0

TrackingStep(userId) ==
    /\ DispatchReturn(userId, TRUE)
    /\ limiter'.hourlyReplyCount = limiter.hourlyReplyCount + 1
    /\ limiter'.replyHistory = [limiter.replyHistory EXCEPT ![userId] = now]

\* C7, as stated: hourlyReplyCount and replyHistory change only in the step
\* that records a successful dispatch.
C7_OnlySuccessMutates ==
    [][ (\/ limiter'.hourlyReplyCount # limiter.hourlyReplyCount
         \/ limiter'.replyHistory # limiter.replyHistory)
        => \E a \in Authors : TrackingStep(a) ]_vars

\* C7, amended: replyHistory changes and hourlyReplyCount grows only in the
\* step that records a successful dispatch (by exactly one, the author's
\* entry set to the current time); a failed dispatch changes nothing of the
\* limiter; the only other change of hourlyReplyCount is a reset to 0 with
\* lastHourReset set to the current time.
C7_FailedDispatchFree ==
    [][ /\ (\/ limiter'.hourlyReplyCount > limiter.hourlyReplyCount
            \/ limiter'.replyHistory # limiter.replyHistory)
           => \E a \in Authors : TrackingStep(a)
        /\ limiter'.hourlyReplyCount < limiter.hourlyReplyCount
           => limiter'.hourlyReplyCount = 0 /\ limiter'.lastHourReset = now
        /\ \A a \in Authors : DispatchReturn(a, FALSE) => limiter' = limiter
      ]_vars

C7_Witness ==
    /\ hist.dispatch = "failed"
    /\ limiter.hourlyReplyCount = 0
    /\ \A a \in Authors : limiter.replyHistory[a] = NoReply

\* C25, as stated: however the replyToTweet calls interleave, at most one
\* reply to an author is successfully dispatched within any hour (the
\* replies of the log to the author that are less than an hour old are at
\* most one).
C25_OneReplyPerAuthorPerHour ==
    \A a \in Authors : Cardinality(RecentTo(replyLog, a, now)) <= 1

\* C26, as stated: however the replyToTweet calls, the timer resets and the
\* lazy resets interleave, hourlyReplyCount lies between 0 and
\* maxRepliesPerHour, and at most maxRepliesPerHour replies are successfully
\* dispatched between two consecutive resets of the counter.
C26_CountWithinMaximum ==
    /\ 0 <= limiter.hourlyReplyCount
    /\ limiter.hourlyReplyCount <= config.maxRepliesPerHour
    /\ Cardinality(InWindow(replyLog)) <= config.maxRepliesPerHour

\* C20: the counter is reset, by the timer as by canReply(), only when the
\* hour since lastHourReset has elapsed (counted here as an hour or more: in
\* ticks the first firing of the timer comes exactly an hour after the
\* construction), so that no window is reset twice.
C20_SingleResetRule ==
    [][ ( \/ TimerReset
          \/ limiter'.lastHourReset # limiter.lastHourReset )
            => now - limiter.lastHourReset >= HOUR ]_vars

---------------------------------------------------------------------------
(* The SDK at work: start and stop, the polling loops, the handler runs    *)

\* The same, with the processed-set check made after analyzeTrend.
NewRun_CheckAfterAnalysis(kind, id) ==
    [kind |-> kind, id |-> id, pc |-> "analyzeTrend",
     known |-> id \in processedTweets,
     afterReturn |-> id \in returnedIds,
     calls |-> 1,
     trend |-> NoTrend, degraded |-> FALSE, eliza |-> "none",
     analysis |-> NoAnalysis, mint |-> "none"]

\* A handler run just invoked for tweet id by a callback of the given kind:
\* the handler up to its first await (lines 226-228 or 242-244 and 88-102).
\* known: the id was in processedTweets at the call; afterReturn: a call for
\* the id had returned before; calls: the number of collaborator calls the
\* run has made (analyzeTrend, processMessage, the reply dispatch, the mint);
\* degraded: the language model failed during analyzeSentiment, which fell
\* back to its neutral default; eliza: how the calls of
\* elizaAgent.processMessage went.
NewRun(kind, id) ==
    [kind |-> kind, id |-> id,
     pc |-> IF id \in processedTweets THEN "skipped" ELSE "analyzeTrend",
     known |-> id \in processedTweets,
     afterReturn |-> id \in returnedIds,
     calls |-> IF id \in processedTweets THEN 0 ELSE 1,
     trend |-> NoTrend,
     degraded |-> FALSE,
     eliza |-> "none",
     analysis |-> IF id \in processedTweets THEN AlreadyProcessed ELSE NoAnalysis,
     mint |-> "none"]

\* n copies of each element of the set S, as a bag.
Copies(S, n) == [e \in S |-> n]

\* callback(message) for each message of the batch and each registered
\* callback (part_000 214-222 and 245-253); a handler returns at once when
\* the SDK is not running.
Delivered(kind, batch) ==
    IF isRunning /\ callbacks[kind] > 0
    THEN Copies({NewRun(kind, id) : id \in batch}, callbacks[kind])
    ELSE EmptyBag

\* The ids of the batch whose processTwitterMessage call returned during
\* the delivery (lines 88-96).
Skipped(kind, batch) ==
    IF isRunning /\ callbacks[kind] > 0 THEN batch \cap processedTweets ELSE {}

Replace(bag, old, new) == (bag (-) SetToBag({old})) (+) SetToBag({new})

\* start(), lines 52-70, and what it sets off: startTwitterMonitoring
\* (221-253), startMonitoring (53-72) and monitorMentions up to its search.
\* ok = FALSE: one of the three initialize() calls threw.
StartCall(ok) ==
    /\ startCalls' = startCalls + 1
    /\ IF ok
       THEN /\ clientReady' = TRUE
            /\ isRunning' = TRUE
            /\ isMonitoring' = TRUE
            /\ callbacks' = [mention |-> callbacks.mention + 1,
                             trend |-> callbacks.trend + 1]
            /\ loops' = loops (+) SetToBag({[loop |-> "mention", pc |-> "search",
                                             first |-> TRUE, left |-> 0]})
       ELSE UNCHANGED <<clientReady, isRunning, isMonitoring, callbacks, loops>>
    /\ UNCHANGED <<config, limiterVars, mintVars, callVars, processedTweets, returnedIds, runs>>

\* start() called at most MaxStarts times.
Start(ok) ==
    /\ startCalls < MaxStarts
    /\ StartCall(ok)

\* stop(), lines 75-82, and TwitterBot.stop (77-80).
Stop ==
    /\ isRunning \/ isMonitoring
    /\ isRunning' = FALSE
    /\ isMonitoring' = FALSE
    /\ UNCHANGED <<config, clientReady, limiterVars, mintVars, callVars, startCalls,
                   callbacks, loops, processedTweets, returnedIds, runs>>

\* The bottom of a polling loop (part_000 225-227, 257-259): another round
\* is scheduled only while monitoring.
Reschedule(bag, l) ==
    IF isMonitoring
    THEN Replace(bag, l, [l EXCEPT !.pc = "timer", !.first = FALSE, !.left = 0])
    ELSE bag (-) SetToBag({l})

\* The same, with the error of the platform collaborator rethrown.
searchTweets_Rethrows(result) ==
    IF result.ok THEN [threw |-> FALSE, tweets |-> result.tweets]
    ELSE [threw |-> TRUE, tweets |-> {}]

\* searchTweets (158-180) once client.v2.search has settled: result.ok =
\* FALSE is a call that failed, which the catch of 176-179 answers with [].
searchTweets(result) ==
    IF result.ok THEN [threw |-> FALSE, tweets |-> result.tweets]
    ELSE [threw |-> FALSE, tweets |-> {}]

\* getTrendingTopics (185-200) once client.v1.trends has settled: the
\* number of trends returned, none when the call failed (196-199).
getTrendingTopics(result) ==
    IF result.ok THEN [threw |-> FALSE, n |-> result.n]
    ELSE [threw |-> FALSE, n |-> 0]

\* monitorMentions (205-232) after its search has settled.  An error thrown
\* by searchTweets would end the loop in the catch of 229-231.  The first
\* round was awaited by startMonitoring, which goes on to
\* monitorTrendingTopics (line 65).
MentionSearchReturn(l, result) ==
    /\ l \in BagToSet(loops)
    /\ l.loop = "mention" /\ l.pc = "search"
    /\ LET found == searchTweets(result)
           batch == found.tweets
           rescheduled == IF found.threw THEN loops (-) SetToBag({l})
                          ELSE Reschedule(loops, l)
       IN  /\ BagCardinality(runs (+) Delivered("mention", batch)) <= MaxRuns
           /\ runs' = runs (+) Delivered("mention", batch)
           /\ returnedIds' = returnedIds \cup Skipped("mention", batch)
           /\ loops' = IF l.first
                       THEN rescheduled
                            (+) SetToBag({[loop |-> "trend", pc |-> "list",
                                           first |-> FALSE, left |-> 0]})
                       ELSE rescheduled
    /\ UNCHANGED <<config, clientReady, limiterVars, mintVars, callVars, isRunning,
                   isMonitoring, startCalls, callbacks, processedTweets>>

\* A timer of a polling loop fires (setTimeout, lines 226 and 258): the next
\* round begins, up to its first await.
TimerFires(l) ==
    /\ l \in BagToSet(loops)
    /\ l.pc = "timer"
    /\ loops' = Replace(loops, l,
                   [l EXCEPT !.pc = IF l.loop = "mention" THEN "search" ELSE "list"])
    /\ UNCHANGED <<config, clientReady, limiterVars, mintVars, callVars, isRunning,
                   isMonitoring, startCalls, callbacks, processedTweets,
                   returnedIds, runs>>

\* monitorTrendingTopics (237-264) after getTrendingTopics has settled: the
\* first of at most five searches begins.  An error thrown by
\* getTrendingTopics would end the loop in the catch of 261-263.
TrendListReturn(l, result) ==
    /\ l \in BagToSet(loops)
    /\ l.loop = "trend" /\ l.pc = "list"
    /\ LET listed == getTrendingTopics(result)
           n == listed.n
       IN  loops' = IF listed.threw THEN loops (-) SetToBag({l})
                    ELSE IF n = 0
                    THEN Reschedule(loops, l)
                    ELSE Replace(loops, l,
                            [l EXCEPT !.pc = "search",
                                      !.left = IF n > TopTrends THEN TopTrends
                                               ELSE n])
    /\ UNCHANGED <<config, clientReady, limiterVars, mintVars, callVars, isRunning,
                   isMonitoring, startCalls, callbacks, processedTweets,
                   returnedIds, runs>>

\* monitorTrendingTopics after the search for one trend has settled.
TrendSearchReturn(l, result) ==
    /\ l \in BagToSet(loops)
    /\ l.loop = "trend" /\ l.pc = "search"
    /\ LET found == searchTweets(result)
           batch == found.tweets
       IN  /\ BagCardinality(runs (+) Delivered("trend", batch)) <= MaxRuns
           /\ runs' = runs (+) Delivered("trend", batch)
           /\ returnedIds' = returnedIds \cup Skipped("trend", batch)
           /\ loops' = IF found.threw THEN loops (-) SetToBag({l})
                       ELSE IF l.left = 1
                       THEN Reschedule(loops, l)
                       ELSE Replace(loops, l, [l EXCEPT !.left = @ - 1])
    /\ UNCHANGED <<config, clientReady, limiterVars, mintVars, callVars, isRunning,
                   isMonitoring, startCalls, callbacks, processedTweets>>

\* analyzeTrend returned to processTwitterMessage (line 102), which calls
\* elizaAgent.processMessage (105).  The replies are those of the language
\* model to analyzeSentiment and generateTokenSuggestion; emojiTest is the
\* outcome of emojiRegex.test on the tweet's text, which holds no emoji.
AnalyzeTrendReturn(r, sentimentReply, emojiTest, peakHour, suggestionReply) ==
    /\ r \in BagToSet(runs)
    /\ r.pc = "analyzeTrend"
    /\ runs' = Replace(runs, r,
                 [r EXCEPT !.pc = "processMessage",
                           !.calls = @ + 1,
                           !.degraded = ~sentimentReply.ok,
                           !.trend = analyzeTrend(Tweets[r.id], sentimentReply,
                                                  emojiTest, peakHour,
                                                  suggestionReply)])
    /\ UNCHANGED <<config, clientReady, limiterVars, mintVars, callVars, isRunning,
                   isMonitoring, startCalls, callbacks, loops, processedTweets,
                   returnedIds>>

\* The handler from its minting condition on (lines 235-237, 247-249), up
\* to the call of the mint collaborator.  The error createMemeCoin throws at
\* line 162 is caught by nobody: the promise of the handler is rejected.
ThenMint(r) ==
    IF wantsMint(r.kind, r.analysis)
    THEN LET m == beginMint(r.analysis, config.minSentimentScore)
         IN  [r EXCEPT !.mint = m,
                       !.calls = IF m = "called" THEN @ + 1 ELSE @,
                       !.pc = IF m = "called" THEN "minting"
                              ELSE IF m = "threw" THEN "rejected"
                              ELSE "finishing"]
    ELSE [r EXCEPT !.pc = "finishing"]

\* The ids recorded when a decision is returned: line 141.
recordProcessed_NotOnFallback(ids, id, elizaResponse) ==
    IF elizaResponse.hasActions THEN ids \cup {id} ELSE ids

recordProcessed(ids, id, elizaResponse) == ids \cup {id}

\* elizaAgent.processMessage returned (line 105): the decision is built, the
\* id recorded (141) and the decision returned to the handler, which runs on
\* to its next await: the reply dispatch (232, MessageReplyHandler 31-53), the
\* mint collaborator, or its end.
ProcessMessageReturn(r, runtimeOk, structuredReply) ==
    /\ r \in BagToSet(runs)
    /\ r.pc = "processMessage"
    /\ LET elizaResponse == processMessage(runtimeOk, structuredReply)
           analysis == buildAnalysis(Tweets[r.id], r.trend, elizaResponse)
           decided == [r EXCEPT !.analysis = analysis,
                                !.eliza = elizaOutcome(runtimeOk, structuredReply)]
           userId == Tweets[r.id].authorId
           gate == replyGate(limiter, userId, now, config.maxRepliesPerHour,
                             clientReady)
       IN  /\ processedTweets' = recordProcessed(processedTweets, r.id, elizaResponse)
           /\ returnedIds' = returnedIds \cup {r.id}
           /\ IF r.kind = "mention" /\ analysis.shouldReply /\ analysis.hasReplyContent
              THEN /\ limiter' = canReplyState(limiter, now)
                   /\ IF gate = "dispatch"
                      THEN /\ runs' = Replace(runs, r,
                                        [decided EXCEPT !.pc = "replying",
                                                        !.calls = @ + 1])
                           /\ replies' = [replies EXCEPT ![userId] = @ + 1]
                      ELSE /\ runs' = Replace(runs, r, ThenMint(decided))
                           /\ UNCHANGED replies
              ELSE /\ runs' = Replace(runs, r, ThenMint(decided))
                   /\ UNCHANGED <<limiter, replies>>
    /\ UNCHANGED <<config, clientReady, now, timerDue, replyLog, hist, mintVars, callVars,
                   isRunning, isMonitoring, startCalls, callbacks, loops>>

\* twitterBot.replyToTweet returned to MessageReplyHandler.replyToTweet
\* (53-60), and the mention handler runs on (235).
ReplyReturn(r, success) ==
    /\ r \in BagToSet(runs)
    /\ r.pc = "replying"
    /\ limiter' = afterDispatch(limiter, Tweets[r.id].authorId, now, success)
    /\ replies' = [replies EXCEPT ![Tweets[r.id].authorId] = @ - 1]
    /\ runs' = Replace(runs, r, ThenMint(r))
    /\ UNCHANGED <<config, clientReady, now, timerDue, replyLog, hist, mintVars, callVars,
                   isRunning, isMonitoring, startCalls, callbacks, loops,
                   processedTweets, returnedIds>>

\* createTokenWithBondingCurve settled; createToken and createMemeCoin
\* return (MemeCoinCreator 55-78, ElizaSolanaSDK 170-184).
MintReturn(r, outcome) ==
    /\ r \in BagToSet(runs)
    /\ r.pc = "minting"
    /\ runs' = Replace(runs, r, [r EXCEPT !.pc = "finishing", !.mint = outcome])
    /\ UNCHANGED <<config, clientReady, limiterVars, mintVars, callVars, isRunning,
                   isMonitoring, startCalls, callbacks, loops, processedTweets,
                   returnedIds>>

\* The handler's promise settles.
HandlerEnds(r) ==
    /\ r \in BagToSet(runs)
    /\ r.pc \in {"finishing", "skipped", "rejected"}
    /\ runs' = runs (-) SetToBag({r})
    /\ UNCHANGED <<config, clientReady, limiterVars, mintVars, callVars, isRunning,
                   isMonitoring, startCalls, callbacks, loops, processedTweets,
                   returnedIds>>

Init ==
    /\ config \in [maxRepliesPerHour : 1..MaxRepliesCfg,
                   minSentimentScore : {DefaultMinSentiment}]
    /\ clientReady = FALSE
    /\ NewLimiter
    /\ mint = NoMint
    /\ call = NoCall
    /\ NewSDK

\* The replies of the collaborators a handler run awaits.
AllReplies ==
    [sentiment |-> SentimentReplies, emojiTest |-> {"throws", "noMatch"},
     peakHour |-> BOOLEAN,
     suggestion |-> SuggestionReplies, runtimeOk |-> BOOLEAN,
     structured |-> StructuredReplies]

\* Some of them: the runtime works or fails, and the language model likes
\* all it sees.
FewReplies ==
    [sentiment |-> {x \in SentimentReplies : x.score = 90},
     emojiTest |-> {"noMatch"},
     peakHour |-> {TRUE},
     suggestion |-> {x \in SuggestionReplies : Len(x.symbol) = 5},
     runtimeOk |-> BOOLEAN,
     structured |-> {x \in StructuredReplies :
                        x.confidence = 90 /\ x.createToken /\ x.replyToTweet}]

\* How createTokenWithBondingCurve settles (SolanaManager.ts 76-136): it
\* returns success, returns a failure, or throws (no payer).
MintOutcomes == {"success", "failed", "threw"}

\* The batches a search returns while no handler run is under way: one
\* tweet or none.
OneAtATime == IF runs = EmptyBag THEN {{}} \cup {{id} : id \in Ids} ELSE {{}}

\* How client.v2.search settles: it fails, or returns one of the batches.
SearchResults(batches) ==
    { [ok |-> FALSE, tweets |-> {}] } \cup [ok : {TRUE}, tweets : batches]

\* How client.v1.trends settles: it fails, or returns up to MaxTrends trends.
TrendResults ==
    { [ok |-> FALSE, n |-> 0] } \cup [ok : {TRUE}, n : 0..MaxTrends]

\* The SDK with handler runs that overlap, on some replies of the
\* collaborators.
Next ==
    \/ \E ok \in BOOLEAN : Start(ok)
    \/ Stop
    \/ \E l \in BagToSet(loops), result \in SearchResults(SUBSET Ids) :
            MentionSearchReturn(l, result)
    \/ \E l \in BagToSet(loops) : TimerFires(l)
    \/ \E l \in BagToSet(loops), result \in TrendResults : TrendListReturn(l, result)
    \/ \E l \in BagToSet(loops), result \in SearchResults(SUBSET Ids) :
            TrendSearchReturn(l, result)
    \/ \E r \in BagToSet(runs), sentimentReply \in FewReplies.sentiment,
          emojiTest \in FewReplies.emojiTest, peakHour \in FewReplies.peakHour,
          suggestionReply \in FewReplies.suggestion :
            AnalyzeTrendReturn(r, sentimentReply, emojiTest, peakHour,
                               suggestionReply)
    \/ \E r \in BagToSet(runs), runtimeOk \in FewReplies.runtimeOk,
          structuredReply \in FewReplies.structured :
            ProcessMessageReturn(r, runtimeOk, structuredReply)
    \/ \E r \in BagToSet(runs), success \in BOOLEAN : ReplyReturn(r, success)
    \/ \E r \in BagToSet(runs), outcome \in MintOutcomes : MintReturn(r, outcome)
    \/ \E r \in BagToSet(runs) : HandlerEnds(r)

Spec == Init /\ [][Next]_vars

\* The SDK started once and handling one tweet at a time, on every reply of
\* the collaborators.
NextOneByOne ==
    \/ startCalls = 0 /\ Start(TRUE)
    \/ Stop
    \/ \E l \in BagToSet(loops), result \in SearchResults(OneAtATime) :
            MentionSearchReturn(l, result)
    \/ \E l \in BagToSet(loops) : TimerFires(l)
    \/ \E l \in BagToSet(loops), result \in TrendResults : TrendListReturn(l, result)
    \/ \E l \in BagToSet(loops), result \in SearchResults(OneAtATime) :
            TrendSearchReturn(l, result)
    \/ \E r \in BagToSet(runs), sentimentReply \in AllReplies.sentiment,
          emojiTest \in AllReplies.emojiTest, peakHour \in AllReplies.peakHour,
          suggestionReply \in AllReplies.suggestion :
            AnalyzeTrendReturn(r, sentimentReply, emojiTest, peakHour,
                               suggestionReply)
    \/ \E r \in BagToSet(runs), runtimeOk \in AllReplies.runtimeOk,
          structuredReply \in AllReplies.structured :
            ProcessMessageReturn(r, runtimeOk, structuredReply)
    \/ \E r \in BagToSet(runs), success \in BOOLEAN : ReplyReturn(r, success)
    \/ \E r \in BagToSet(runs), outcome \in MintOutcomes : MintReturn(r, outcome)
    \/ \E r \in BagToSet(runs) : HandlerEnds(r)

SpecOneByOne == Init /\ [][NextOneByOne]_vars


---------------------------------------------------------------------------
(* Properties of the de-duplication                                        *)

PastCheck(id) ==
    LET S == {r \in BagToSet(runs) : r.id = id /\ r.pc # "skipped"}
        RECURSIVE Sum(_)
        Sum(T) == IF T = {} THEN 0
                  ELSE LET r == CHOOSE x \in T : TRUE
                       IN  CopiesIn(r, runs) + Sum(T \ {r})
    IN  Sum(S)

\* C2, as stated: for every id, at most one run of processTwitterMessage
\* gets past the processed-set check, however the handler runs interleave.
C2_AtMostOncePerId == \A id \in Ids : PastCheck(id) <= 1

\* C3: a processTwitterMessage call for an id that is in the processed set
\* returns the "already processed" decision having called no collaborator,
\* and leaves the processed set as it was.
C3_CheckBeforeCollaborators ==
    /\ [](\A r \in BagToSet(runs) :
            r.known => /\ r.pc = "skipped"
                       /\ r.calls = 0
                       /\ r.analysis = AlreadyProcessed
                       /\ r.trend = NoTrend
                       /\ r.mint = "none")
    /\ [][(\E r \in BagToSet(runs') : r.known /\ CopiesIn(r, runs') > CopiesIn(r, runs))
            => processedTweets' = processedTweets]_vars

\* The trend handler was called with a tweet that is in the processed set,
\* and has called no collaborator.
C3_Witness ==
    \E r \in BagToSet(runs) :
        /\ r.kind = "trend"
        /\ r.known
        /\ r.id \in processedTweets
        /\ r.calls = 0
        /\ r.pc = "skipped"

---------------------------------------------------------------------------
(* Properties of the decision                                              *)

\* C9: a TrendAnalysis that carries a token suggestion has a sentiment score
\* above 0.6 and a viral score above 0.5, both strictly, and so has the
\* analysis behind every decision that carries a token concept.
C9_TokenConceptGate ==
    \A r \in BagToSet(runs) :
        /\ r.trend.tokenSuggestion # NoSuggestion
              => r.trend.sentiment > 60 /\ r.trend.viralPotential > 50
        /\ r.analysis.tokenConcept # NoConcept
              => /\ r.trend.sentiment > 60 /\ r.trend.viralPotential > 50
                 /\ r.analysis.tokenConcept.sentimentScore = r.trend.sentiment
                 /\ r.analysis.tokenConcept.viralScore = r.trend.viralPotential

\* A decision carries a token concept for the tweet whose viral score is
\* 0.6 at a peak hour and 0.5 otherwise.
C9_Witness ==
    \E r \in BagToSet(runs) :
        /\ r.id = "t2"
        /\ r.analysis.tokenConcept # NoConcept
        /\ r.trend.viralPotential = 60

\* C10: a trend handler goes on to create a token only if the decision says
\* shouldCreateToken and its confidence is above 0.8; a mention handler
\* whose decision says shouldCreateToken and carries a token concept goes on
\* to create the token whatever the confidence.
C10_TrendConfidenceBar ==
    \A r \in BagToSet(runs) :
        /\ r.kind = "trend" /\ r.mint # "none"
              => r.analysis.shouldCreateToken /\ r.analysis.confidence > 80
        /\ ( /\ r.kind = "mention"
             /\ r.pc \in {"minting", "finishing"}
             /\ r.analysis.shouldCreateToken
             /\ r.analysis.tokenConcept # NoConcept )
              => r.mint # "none"

\* A trend handler ended without creating the token its decision asked for
\* with confidence 0.8.
C10_Witness ==
    \E r \in BagToSet(runs) :
        /\ r.kind = "trend"
        /\ r.pc = "finishing"
        /\ r.analysis.shouldCreateToken
        /\ r.analysis.tokenConcept # NoConcept
        /\ r.analysis.confidence = 80
        /\ r.mint = "none"

\* C16: a polling iteration begins, and issues its search or its listing of
\* the trends, only while the SDK is running and monitoring: none begins
\* after stop().
C16_NoPollAfterStop ==
    [][ \A l \in BagToSet(loops) :
            TimerFires(l) => (isRunning /\ isMonitoring) ]_vars

\* The platform calls of the polling loops settle and their timers fire.
PollingFairness ==
    \A kind \in {"mention", "trend"} :
        /\ WF_vars(\E l \in BagToSet(loops) : l.loop = kind /\ TimerFires(l))
        /\ WF_vars(\E l \in BagToSet(loops), result \in SearchResults(OneAtATime) :
                      /\ l.loop = kind
                      /\ \/ MentionSearchReturn(l, result)
                         \/ TrendSearchReturn(l, result))
        /\ WF_vars(\E l \in BagToSet(loops), result \in TrendResults :
                      l.loop = kind /\ TrendListReturn(l, result))

\* The SDK started once and handling one tweet at a time, on some replies
\* of the collaborators; the platform calls fail or not.
NextPolling ==
    \/ startCalls = 0 /\ Start(TRUE)
    \/ Stop
    \/ \E l \in BagToSet(loops), result \in SearchResults(OneAtATime) :
            MentionSearchReturn(l, result)
    \/ \E l \in BagToSet(loops) : TimerFires(l)
    \/ \E l \in BagToSet(loops), result \in TrendResults : TrendListReturn(l, result)
    \/ \E l \in BagToSet(loops), result \in SearchResults(OneAtATime) :
            TrendSearchReturn(l, result)
    \/ \E r \in BagToSet(runs), sentimentReply \in FewReplies.sentiment,
          emojiTest \in FewReplies.emojiTest, peakHour \in FewReplies.peakHour,
          suggestionReply \in FewReplies.suggestion :
            AnalyzeTrendReturn(r, sentimentReply, emojiTest, peakHour,
                               suggestionReply)
    \/ \E r \in BagToSet(runs), runtimeOk \in FewReplies.runtimeOk,
          structuredReply \in FewReplies.structured :
            ProcessMessageReturn(r, runtimeOk, structuredReply)
    \/ \E r \in BagToSet(runs), success \in BOOLEAN : ReplyReturn(r, success)
    \/ \E r \in BagToSet(runs), outcome \in MintOutcomes : MintReturn(r, outcome)
    \/ \E r \in BagToSet(runs) : HandlerEnds(r)

SpecPolling == Init /\ [][NextPolling]_vars /\ PollingFairness

\* A loop of the kind has issued its search or its listing of the trends.
Polling(kind) ==
    \E l \in BagToSet(loops) : l.loop = kind /\ l.pc \in {"search", "list"}

\* A loop of the kind has scheduled its next iteration.
Scheduled(kind) ==
    \E l \in BagToSet(loops) : l.loop = kind /\ l.pc = "timer"

\* C18: whether its platform calls fail or not, a polling iteration of
\* either loop is followed by the scheduling of the next one unless
\* monitoring has been stopped, and a scheduled iteration begins: while
\* monitoring stays active every poll is followed by another.
C18_PollingChain ==
    \A kind \in {"mention", "trend"} :
        /\ Polling(kind) ~> (Scheduled(kind) \/ ~isMonitoring)
        /\ Scheduled(kind) ~> Polling(kind)

\* Both loops have scheduled their next iteration after polls whose platform
\* calls found nothing or failed: no tweet was ever handed to a handler.
C18_Witness ==
    /\ isMonitoring
    /\ Scheduled("mention") /\ Scheduled("trend")
    /\ returnedIds = {} /\ runs = EmptyBag

\* The SDK started up to MaxRestarts times, stopped in between or not, and
\* handling one tweet at a time on some replies of the collaborators.
NextRestart ==
    \/ startCalls < MaxRestarts /\ StartCall(TRUE)
    \/ Stop
    \/ \E l \in BagToSet(loops), result \in SearchResults(OneAtATime) :
            MentionSearchReturn(l, result)
    \/ \E l \in BagToSet(loops) : TimerFires(l)
    \/ \E l \in BagToSet(loops), result \in TrendResults : TrendListReturn(l, result)
    \/ \E l \in BagToSet(loops), result \in SearchResults(OneAtATime) :
            TrendSearchReturn(l, result)
    \/ \E r \in BagToSet(runs), sentimentReply \in FewReplies.sentiment,
          emojiTest \in FewReplies.emojiTest, peakHour \in FewReplies.peakHour,
          suggestionReply \in FewReplies.suggestion :
            AnalyzeTrendReturn(r, sentimentReply, emojiTest, peakHour,
                               suggestionReply)
    \/ \E r \in BagToSet(runs), runtimeOk \in FewReplies.runtimeOk,
          structuredReply \in FewReplies.structured :
            ProcessMessageReturn(r, runtimeOk, structuredReply)
    \/ \E r \in BagToSet(runs), success \in BOOLEAN : ReplyReturn(r, success)
    \/ \E r \in BagToSet(runs), outcome \in MintOutcomes : MintReturn(r, outcome)
    \/ \E r \in BagToSet(runs) : HandlerEnds(r)

SpecRestart == Init /\ [][NextRestart]_vars

\* The polling loops of the kind: awaiting a platform call or their timer.
Chains(kind) ==
    BagCardinality([l \in {x \in BagToSet(loops) : x.loop = kind}
                       |-> CopiesIn(l, loops)])

\* C28, as stated: after any sequence of start() and stop() calls, at most
\* one mention-polling iteration and at most one trend-polling iteration is
\* pending or running, and one mention handler and one trend handler is
\* registered once start() has been called, so that a polled message is
\* handed to at most one handler of each kind.
C28_OneChainPerKind ==
    \A kind \in {"mention", "trend"} :
        /\ Chains(kind) <= 1
        /\ callbacks[kind] = (IF startCalls = 0 THEN 0 ELSE 1)
        /\ \A r \in BagToSet(runs) : r.kind = kind => CopiesIn(r, runs) <= 1

\* The handler runs of one kind that await a collaborator.
Unfinished(kind) ==
    { r \in BagToSet(runs) :
        r.kind = kind /\ r.pc \in {"analyzeTrend", "processMessage",
                                   "replying", "minting"} }

\* C17: within one polling loop the handler run for a message has completed
\* before the run for the next message starts, and the next poll is
\* scheduled only when every message of the batch has been handled.
C17_SequentialBatch ==
    \A kind \in {"mention", "trend"} :
        /\ BagCardinality([r \in Unfinished(kind) |-> CopiesIn(r, runs)]) <= 1
        /\ (\E l \in BagToSet(loops) : l.loop = kind /\ l.pc = "timer")
              => Unfinished(kind) = {}

\* C19: whatever the decision and the outcomes of the collaborators, no
\* handler run ends in an uncaught exception or a rejected promise.
C19_HandlersNeverReject ==
    \A r \in BagToSet(runs) : r.pc # "rejected"

\* A minSentimentScore below the neutral default of analyzeSentiment.
LowMinSentiment == 40

InitDegraded ==
    /\ config \in [maxRepliesPerHour : {1},
                   minSentimentScore : {LowMinSentiment, DefaultMinSentiment}]
    /\ clientReady = FALSE
    /\ NewLimiter
    /\ mint = NoMint
    /\ call = NoCall
    /\ NewSDK

\* The replies when the language model may be out during analyzeSentiment:
\* everything else is in favour of a token.
DegradedReplies ==
    [sentiment |-> SentimentReplies,
     emojiTest |-> {"noMatch"},
     peakHour |-> {TRUE},
     suggestion |-> {x \in SuggestionReplies : Len(x.symbol) = 5},
     runtimeOk |-> BOOLEAN,
     structured |-> StructuredReplies]

\* The SDK started once and handling one tweet at a time, with a
\* minSentimentScore of 0.4 or 0.6.
NextDegraded ==
    \/ startCalls = 0 /\ Start(TRUE)
    \/ Stop
    \/ \E l \in BagToSet(loops), result \in SearchResults(OneAtATime) :
            MentionSearchReturn(l, result)
    \/ \E l \in BagToSet(loops) : TimerFires(l)
    \/ \E l \in BagToSet(loops), result \in TrendResults : TrendListReturn(l, result)
    \/ \E l \in BagToSet(loops), result \in SearchResults(OneAtATime) :
            TrendSearchReturn(l, result)
    \/ \E r \in BagToSet(runs), sentimentReply \in DegradedReplies.sentiment,
          emojiTest \in DegradedReplies.emojiTest,
          peakHour \in DegradedReplies.peakHour,
          suggestionReply \in DegradedReplies.suggestion :
            AnalyzeTrendReturn(r, sentimentReply, emojiTest, peakHour,
                               suggestionReply)
    \/ \E r \in BagToSet(runs), runtimeOk \in DegradedReplies.runtimeOk,
          structuredReply \in DegradedReplies.structured :
            ProcessMessageReturn(r, runtimeOk, structuredReply)
    \/ \E r \in BagToSet(runs), success \in BOOLEAN : ReplyReturn(r, success)
    \/ \E r \in BagToSet(runs), outcome \in MintOutcomes : MintReturn(r, outcome)
    \/ \E r \in BagToSet(runs) : HandlerEnds(r)

SpecDegraded == InitDegraded /\ [][NextDegraded]_vars

\* C30: for a message whose sentiment analysis fell back to the neutral
\* default because the language model failed, the mint collaborator is
\* never called, on the mention path or on the trend path, whatever the
\* other collaborators return and whatever minSentimentScore is: the
\* analysis carries no token suggestion and the decision no token concept.
\* A reply may still be dispatched.
C30_DegradedNeverMints ==
    \A r \in BagToSet(runs) :
        r.degraded => /\ r.pc # "minting"
                      /\ r.mint \in {"none", "threw"}
                      /\ r.trend.tokenSuggestion = NoSuggestion
                      /\ r.analysis.tokenConcept = NoConcept

\* With minSentimentScore 0.4, the mention handler is replying to a tweet of
\* viral score 1 whose sentiment fell back, on a decision that asks for a
\* token.
C30_Witness ==
    /\ config.minSentimentScore = LowMinSentiment
    /\ \E r \in BagToSet(runs) :
          /\ r.kind = "mention"
          /\ r.degraded
          /\ r.trend.sentiment = 50 /\ r.trend.viralPotential = 100
          /\ r.analysis.shouldCreateToken
          /\ r.pc = "replying"

\* C11, as stated: whenever a call inside elizaAgent.processMessage failed,
\* the agent runtime's or the structured analysis', the decision has
\* confidence 0.5, shouldCreateToken = false and shouldReply = true.
C11_ReplyBiasedFallback ==
    \A r \in BagToSet(runs) :
        r.eliza \in {"runtimeFailed", "structuredFailed"}
            => /\ r.analysis.confidence = 50
               /\ ~r.analysis.shouldCreateToken
               /\ r.analysis.shouldReply

\* C11, amended: when the structured-analysis call failed the decision has
\* confidence 0.5, shouldCreateToken = false and shouldReply = true; when the
\* agent runtime call failed it has confidence 0.1 and both actions false.
C11_FallbackPerCall ==
    \A r \in BagToSet(runs) :
        /\ r.eliza = "structuredFailed"
              => /\ r.analysis.confidence = 50
                 /\ ~r.analysis.shouldCreateToken
                 /\ r.analysis.shouldReply
        /\ r.eliza = "runtimeFailed"
              => /\ r.analysis.confidence = 10
                 /\ ~r.analysis.shouldCreateToken
                 /\ ~r.analysis.shouldReply

\* The structured analysis failed for a mention and the reply it asks for
\* was dispatched.
C11_Witness ==
    \E r \in BagToSet(runs) :
        /\ r.kind = "mention"
        /\ r.eliza = "structuredFailed"
        /\ r.pc = "replying"


---------------------------------------------------------------------------
(* The scoring functions called on their own, on the inputs below          *)

\* A number in a reply of the language model: below 0, absent or 0, inside
\* the range, above 1.
ScoreValues == {-50, 0, 60, 61, 150}

\* numbers: the reply holds a score and a confidence that are numbers (0 is
\* then the number 0); a reply without them leaves both fields out.
ScoreSentimentReplies ==
    { [ok |-> FALSE, numbers |-> FALSE, score |-> 0, label |-> "",
       confidence |-> 0] }
    \cup [ok : {TRUE}, numbers : {TRUE}, score : ScoreValues,
          label : {"", "positive"}, confidence : ScoreValues]
    \cup [ok : {TRUE}, numbers : {FALSE}, score : {0},
          label : {"", "positive"}, confidence : {0}]

ScoreStructuredReplies ==
    { [ok |-> FALSE, confidence |-> 0, createToken |-> FALSE,
       replyToTweet |-> FALSE] }
    \cup [ok : {TRUE}, confidence : ScoreValues, createToken : BOOLEAN,
          replyToTweet : BOOLEAN]

\* The character U+1F48E, an emoji.
GemStone == "U+1F48E"

\* The messages whose viral potential is computed: the metrics lie on both
\* sides of each threshold of lines 130-170.
ScoreMessages ==
    [text : { <<"g", "m">>, <<"n", "o">>, <<"n", "o", " ", GemStone>> },
     likes : {10, 11, 100, 150}, retweets : {20, 45}, replies : {0, 23},
     views : {0, 2500}, hashtags : {0, 1}, hoursSincePost : {1, 2}]

NoScores == [pc |-> "none"]

\* The authors replied to and the reply contents: of every length up to
\* MaxContentLen, without a mention, beginning with the mention of "al" or
\* ending with it.
Usernames == { <<"a", "l">>, <<"b", "o", "b">> }

ReplyContents ==
    { Repeat("x", n) : n \in 0..MaxContentLen }
    \cup { Mention(<<"a", "l">>) \o Repeat("x", n) : n \in 0..(MaxContentLen - 3) }
    \cup { Repeat("x", n) \o Mention(<<"a", "l">>) : n \in 0..(MaxContentLen - 3) }

InitCalls ==
    /\ config \in [maxRepliesPerHour : {1},
                   minSentimentScore : {DefaultMinSentiment}]
    /\ clientReady = FALSE
    /\ NewLimiter
    /\ NewSDK
    /\ mint = NoMint
    /\ call \in
          [fn : {"analyzeTrend"}, pc : {"called"},
           message : {Tweets[id] : id \in Ids},
           sentimentReply : ScoreSentimentReplies,
           emojiTest : EmojiTestOutcomes, peakHour : BOOLEAN,
           suggestionReply : SuggestionReplies, conceptCalls : {0},
           out : {NoScores}]
          \cup
          [fn : {"analyzeViralPotential"}, pc : {"called"},
           message : ScoreMessages,
           emojiTest : EmojiTestOutcomes, peakHour : BOOLEAN, out : {NoScores}]
          \cup
          [fn : {"processTwitterMessage"}, pc : {"called"},
           message : {Tweets[id] : id \in Ids},
           runtimeOk : BOOLEAN, structuredReply : ScoreStructuredReplies,
           out : {NoScores}]
          \cup
          [fn : {"formatReply"}, pc : {"called"}, authorUsername : Usernames,
           content : ReplyContents, out : {NoScores}]

\* analyzeTrend, lines 24: analyzeSentiment has returned.
SentimentReturns ==
    /\ call.fn = "analyzeTrend" /\ call.pc = "called"
    /\ call' = [call EXCEPT !.pc = "analyzeSentiment",
                            !.out = analyzeSentiment(call.sentimentReply)]
    /\ UNCHANGED <<config, clientReady, limiterVars, mintVars, sdkVars>>

\* The same, asking for a token suggestion whatever the scores are.
TrendReturns_AlwaysAsks ==
    /\ call.fn = "analyzeTrend" /\ call.pc = "analyzeSentiment"
    /\ call' = [call EXCEPT
          !.pc = "generateTokenSuggestion",
          !.conceptCalls = @ + 1,
          !.out = [sentiment |-> call.out,
                   viralPotential |->
                       analyzeViralPotential(call.message, call.emojiTest,
                                             call.peakHour)]]
    /\ UNCHANGED <<config, clientReady, limiterVars, mintVars, sdkVars>>

\* analyzeTrend, lines 27-51, from the return of analyzeSentiment to the
\* next await: analyzeViralPotential is computed, then the gate of line 34
\* either issues the language-model call of generateTokenSuggestion
\* (conceptCalls counts these calls) or lets the TrendAnalysis be returned
\* without a suggestion.
TrendReturns ==
    /\ call.fn = "analyzeTrend" /\ call.pc = "analyzeSentiment"
    /\ LET viralResult == analyzeViralPotential(call.message, call.emojiTest,
                                                call.peakHour)
       IN  IF suggestionGate(call.out.score, viralResult.score)
           THEN call' = [call EXCEPT
                   !.pc = "generateTokenSuggestion",
                   !.conceptCalls = @ + 1,
                   !.out = [sentiment |-> call.out,
                            viralPotential |-> viralResult]]
           ELSE call' = [call EXCEPT
                   !.pc = "returned",
                   !.out = [sentiment |-> call.out,
                            viralPotential |-> viralResult,
                            trend |-> analyzeTrend(call.message,
                                         call.sentimentReply, call.emojiTest,
                                         call.peakHour, call.suggestionReply)]]
    /\ UNCHANGED <<config, clientReady, limiterVars, mintVars, sdkVars>>

\* analyzeTrend, lines 35-51: the language model has answered
\* generateTokenSuggestion and the TrendAnalysis is returned.
SuggestionReturns ==
    /\ call.fn = "analyzeTrend" /\ call.pc = "generateTokenSuggestion"
    /\ call' = [call EXCEPT
          !.pc = "returned",
          !.out = [sentiment |-> call.out.sentiment,
                   viralPotential |-> call.out.viralPotential,
                   trend |-> analyzeTrend(call.message, call.sentimentReply,
                                          call.emojiTest, call.peakHour,
                                          call.suggestionReply)]]
    /\ UNCHANGED <<config, clientReady, limiterVars, mintVars, sdkVars>>

\* analyzeViralPotential returns.
ViralReturns ==
    /\ call.fn = "analyzeViralPotential" /\ call.pc = "called"
    /\ call' = [call EXCEPT
          !.pc = "returned",
          !.out = analyzeViralPotential(call.message, call.emojiTest,
                                        call.peakHour)]
    /\ UNCHANGED <<config, clientReady, limiterVars, mintVars, sdkVars>>

\* processTwitterMessage, lines 105-143, on a neutral TrendAnalysis: the
\* decision built from the response of elizaAgent.processMessage.
DecisionReturns ==
    /\ call.fn = "processTwitterMessage" /\ call.pc = "called"
    /\ call' = [call EXCEPT
          !.pc = "returned",
          !.out = buildAnalysis(call.message, NoTrend,
                                processMessage(call.runtimeOk,
                                               call.structuredReply))]
    /\ UNCHANGED <<config, clientReady, limiterVars, mintVars, sdkVars>>

\* MessageReplyHandler.replyToTweet, line 50: formatReply returns the text
\* that line 53 hands to twitterBot.replyToTweet.
FormatReturns ==
    /\ call.fn = "formatReply" /\ call.pc = "called"
    /\ call' = [call EXCEPT
          !.pc = "returned",
          !.out = formatReply(call.authorUsername, call.content)]
    /\ UNCHANGED <<config, clientReady, limiterVars, mintVars, sdkVars>>

NextCalls ==
    \/ SentimentReturns
    \/ TrendReturns
    \/ SuggestionReturns
    \/ ViralReturns
    \/ DecisionReturns
    \/ FormatReturns

SpecCalls == InitCalls /\ [][NextCalls]_vars

InRange(x) == 0 <= x /\ x <= 100

\* C12: whatever numbers the language model returns (below 0, above 1, none),
\* the sentiment score, the sentiment confidence, the viral score and the
\* confidence of the decision lie between 0 and 1, on the fall-back paths too.
C12_ClampingRange ==
    /\ (call.fn = "analyzeTrend" /\ call.pc = "analyzeSentiment")
          => InRange(call.out.score) /\ InRange(call.out.confidence)
    /\ (call.fn = "analyzeTrend" /\ call.pc = "returned")
          => /\ InRange(call.out.sentiment.score)
             /\ InRange(call.out.sentiment.confidence)
             /\ InRange(call.out.viralPotential.score)
             /\ InRange(call.out.trend.sentiment)
             /\ InRange(call.out.trend.viralPotential)
    /\ (call.fn = "analyzeViralPotential" /\ call.pc = "returned")
          => InRange(call.out.score)
    /\ (call.fn = "processTwitterMessage" /\ call.pc = "returned")
          => InRange(call.out.confidence)

\* The language model returned a score above 1 and a confidence below 0,
\* and analyzeTrend returned them clamped to 1 and 0.
C12_Witness ==
    /\ call.fn = "analyzeTrend" /\ call.pc = "returned"
    /\ call.sentimentReply.ok
    /\ call.sentimentReply.score > 100
    /\ call.sentimentReply.confidence < 0
    /\ call.out.sentiment.score = 100
    /\ call.out.sentiment.confidence = 0

\* C13: when the language model fails during analyzeSentiment, the result
\* of analyzeSentiment is {score 0.5, label neutral, confidence 0.1}, and
\* analyzeTrend goes on to return a TrendAnalysis with that sentiment and the
\* viral potential it computed.
C13_NeutralSentimentFallback ==
    (call.fn = "analyzeTrend" /\ ~call.sentimentReply.ok)
        => /\ call.pc = "analyzeSentiment"
                 => call.out = [score |-> 50, label |-> "neutral",
                                confidence |-> 10]
           /\ call.pc = "returned"
                 => /\ call.out.sentiment = [score |-> 50, label |-> "neutral",
                                             confidence |-> 10]
                    /\ call.out.trend.sentiment = 50
                    /\ call.out.trend.viralPotential
                          = call.out.viralPotential.score
                    /\ call.out.trend.tokenSuggestion = NoSuggestion

\* analyzeTrend returned for a message of viral score 1 although the
\* language model had failed during analyzeSentiment.
C13_Witness ==
    /\ call.fn = "analyzeTrend" /\ call.pc = "returned"
    /\ ~call.sentimentReply.ok
    /\ call.out.trend.viralPotential = 100

\* C22: analyzeTrend issues the language-model call for a token suggestion
\* only after the sentiment and the viral score have been computed, and only
\* when the sentiment score is above 0.6 and the viral score above 0.5; when
\* the gate fails no such call is made for the message, and the analysis
\* carries no suggestion.
C22_ConceptShortCircuit ==
    call.fn = "analyzeTrend" =>
        /\ call.pc \in {"called", "analyzeSentiment"} => call.conceptCalls = 0
        /\ call.conceptCalls <= 1
        /\ call.conceptCalls > 0
              => /\ call.pc \in {"generateTokenSuggestion", "returned"}
                 /\ call.out.sentiment.score > 60
                 /\ call.out.viralPotential.score > 50
        /\ ( /\ call.pc = "returned"
             /\ ~(call.out.sentiment.score > 60 /\ call.out.viralPotential.score > 50) )
              => /\ call.conceptCalls = 0
                 /\ call.out.trend.tokenSuggestion = NoSuggestion

\* analyzeTrend returned without having asked for a suggestion: the
\* sentiment score was 0.6 exactly, the viral score 1.
C22_Witness ==
    /\ call.fn = "analyzeTrend" /\ call.pc = "returned"
    /\ call.out.sentiment.score = 60
    /\ call.out.viralPotential.score = 100
    /\ call.conceptCalls = 0
    /\ call.suggestionReply.ok

\* C23, as stated: whenever the language model returns a numeric score s
\* and a numeric confidence c, analyzeSentiment returns
\* score = min(1, max(0, s)) and confidence = min(1, max(0, c)), for every
\* s and c, 0 included.
C23_ClampNotReplace ==
    ( /\ call.fn = "analyzeTrend" /\ call.pc = "analyzeSentiment"
      /\ call.sentimentReply.ok /\ call.sentimentReply.numbers )
        => LET s == call.sentimentReply.score
               c == call.sentimentReply.confidence
           IN  /\ call.out.score = (IF s < 0 THEN 0 ELSE IF s > 100 THEN 100 ELSE s)
               /\ call.out.confidence
                     = (IF c < 0 THEN 0 ELSE IF c > 100 THEN 100 ELSE c)

\* The text holds an emoji.
containsEmoji(text) == \E i \in 1..Len(text) : text[i] = GemStone

\* The point system the viral score is to follow, in its order of
\* evaluation.
ReferencePoints(message, peakHour) ==
    LET total == message.likes + message.retweets + message.replies
        rateAbove == message.views > 0 /\ 100 * total > 5 * message.views
    IN  Factor(message.likes > 100, "High like count", 30)
        \o Factor(message.likes > 10 /\ message.likes <= 100,
                  "Moderate engagement", 10)
        \o Factor(message.retweets > 20, "Strong retweet activity", 20)
        \o Factor(rateAbove, "High engagement rate", 15)
        \o Factor(containsEmoji(message.text), "Contains emojis", 10)
        \o Factor(message.hashtags >= 1, "Uses trending hashtags", 15)
        \o Factor(hasMemeKeywords(message), "Contains meme language", 15)
        \o Factor(message.hoursSincePost < 2 /\ total > 50,
                  "Rapid early engagement", 20)
        \o Factor(peakHour, "Posted during peak hours", 10)

\* C14, as stated: the viral score is min(1, max(0, sum)) of the point
\* system (likes, reposts, engagement rate, emoji, hashtag, meme lexicon,
\* early engagement, peak hour) and factors lists the contributions that
\* fired, in the order of evaluation.
C14_ViralReference ==
    (call.fn = "analyzeViralPotential" /\ call.pc = "returned")
        => LET ref == ReferencePoints(call.message, call.peakHour)
               sum == SumPoints(ref)
           IN  /\ call.out.score
                     = (IF sum > 100 THEN 100 ELSE IF sum < 0 THEN 0 ELSE sum)
               /\ call.out.factors = [i \in 1..Len(ref) |-> ref[i].label]

\* C15: the text handed to the reply collaborator is at most 280 long; when
\* the content, prefixed with the author's mention if it did not hold it, is
\* longer than 280, the text is its first 277 characters followed by "...",
\* 280 in all; otherwise it is the content, prefixed if need be, as it is.
C15_ReplyLengthLimit ==
    (call.fn = "formatReply" /\ call.pc = "returned")
        => LET mention == <<"@">> \o call.authorUsername
               full == IF includes(call.content, mention)
                       THEN call.content
                       ELSE mention \o <<" ">> \o call.content
           IN  /\ Len(call.out) <= 280
               /\ Len(full) > 280
                     => /\ Len(call.out) = 280
                        /\ \A i \in 1..277 : call.out[i] = full[i]
                        /\ \A i \in 278..280 : call.out[i] = "."
               /\ Len(full) <= 280 => call.out = full

\* A content of at most 280 characters passed the limit once the mention
\* was put before it, and was cut.
C15_Witness ==
    /\ call.fn = "formatReply" /\ call.pc = "returned"
    /\ Len(call.content) <= 280
    /\ ~includes(call.content, <<"@">> \o call.authorUsername)
    /\ Len(call.out) = 280
    /\ call.out[280] = "." /\ call.out[277] = "x"

\* C29, as stated: for every message and every reply content, of any length,
\* the text handed to the reply collaborator contains the mention
\* "@" + authorUsername, also when the content was cut to the 280 limit.
C29_ReplyMentionsAuthor ==
    (call.fn = "formatReply" /\ call.pc = "returned")
        => includes(call.out, <<"@">> \o call.authorUsername)

---------------------------------------------------------------------------
(* createToken on its own, on every input of MintInputs                    *)

InitMint ==
    /\ config \in [maxRepliesPerHour : {1},
                   minSentimentScore : {DefaultMinSentiment}]
    /\ clientReady = FALSE
    /\ NewLimiter
    /\ NewSDK
    /\ call = NoCall
    /\ mint \in [pc : {"called"}, data : MintInputs, called : {FALSE},
                 params : {NoParams}, result : {"none"}]

\* createToken, lines 24-55: validation, then the call of the collaborator
\* with the sanitized name and symbol (params).
CreateToken ==
    /\ mint.pc = "called"
    /\ mint' = IF reachesCollaborator(mint.data, config.minSentimentScore)
               THEN [mint EXCEPT !.pc = "minting", !.called = TRUE,
                                 !.params = sanitizeTokenData(mint.data)]
               ELSE [mint EXCEPT !.pc = "done",
                        !.result = validateMemeCoinData(mint.data,
                                                        config.minSentimentScore)]
    /\ UNCHANGED <<config, clientReady, limiterVars, callVars, sdkVars>>

\* createTokenWithBondingCurve settles (SolanaManager.ts 76-136): it returns
\* success, returns a failure, or throws (no payer), which lines 72-78 catch.
MintSettles(outcome) ==
    /\ mint.pc = "minting"
    /\ mint' = [mint EXCEPT !.pc = "done", !.result = outcome]
    /\ UNCHANGED <<config, clientReady, limiterVars, callVars, sdkVars>>

NextMint ==
    \/ CreateToken
    \/ \E outcome \in MintOutcomes : MintSettles(outcome)

SpecMint == InitMint /\ [][NextMint]_vars

\* The conditions C8 names, read off the argument itself.
NameLengthOk(data) == Len(data.name) \in 3..32
SymbolOk(data) ==
    /\ Len(data.symbol) \in 3..6
    /\ \A i \in 1..Len(data.symbol) : \E k \in 1..26 : UpperCase[k] = data.symbol[i]
HasBanned(str) ==
    \E w \in { <<"s", "c", "a", "m">>, <<"r", "u", "g">>, <<"h", "a", "c", "k">>,
               <<"s", "t", "e", "a", "l">> } :
        \E i \in 1..Len(str) :
            /\ i + Len(w) - 1 <= Len(str)
            /\ \A j \in 1..Len(w) : toLowerCaseChar(str[i + j - 1]) = w[j]

\* C8: createToken reaches the mint collaborator only if the sentiment score
\* is at least minSentimentScore, the name has 3 to 32 characters, the symbol
\* is 3 to 6 upper-case letters and no banned word occurs, in any letter
\* case, in the name, the description or the source text; when one of these
\* fails it ends with success=false (an error naming the failed check) and
\* the collaborator is not called.
C8_MintValidationGate ==
    LET d == mint.data
        valid == /\ d.sentimentScore >= config.minSentimentScore
                 /\ NameLengthOk(d)
                 /\ SymbolOk(d)
                 /\ ~HasBanned(d.name)
                 /\ ~HasBanned(d.description)
                 /\ ~HasBanned(d.text)
    IN  /\ mint.called => valid
        /\ mint.pc # "called" /\ ~valid
           => /\ ~mint.called
              /\ mint.pc = "done"
              /\ mint.result \in {"sentiment", "name", "symbol", "banned"}

\* C27, as stated: for every token concept that validation accepts, the
\* token parameters passed to createTokenWithBondingCurve, after
\* sanitizeTokenData and formatTokenName, have a name of 3 to 32 characters
\* and a symbol of 3 to 6 upper-case letters.
C27_MintedParamsValid ==
    mint.called => /\ Len(mint.params.name) \in 3..32
                   /\ SymbolOk(mint.params)

\* A concept whose source text holds "SCAM" in capitals, and nothing else
\* wrong, was rejected for a banned word and never reached the collaborator.
C8_Witness ==
    /\ mint.pc = "done"
    /\ mint.result = "banned"
    /\ ~mint.called
    /\ mint.data.text = <<"a", " ", "S", "C", "A", "M", "!">>
    /\ ~HasBanned(mint.data.name)
    /\ ~HasBanned(mint.data.description)

---------------------------------------------------------------------------
(* The configuration: new ElizaSolanaSDK(config), then start()             *)

\* The configurations the constructor is given.  A string that is "" is a
\* field left out; temperature and minSentimentScore are in hundredths,
\* maxSupply in millions; hasApiKeys is twitter.apiKey && twitter.apiSecret.
RawConfigs ==
    [modelProvider : {"", "openai"},
     temperature : {-1, 0, 100, 101},
     programId : {"", "8DV5"},
     cluster : {"devnet", "localnet"},
     username : {"", "bot"},
     password : {"", "pw"},
     hasApiKeys : BOOLEAN,
     maxRepliesPerHour : {0, 1, 100, 101},
     minSentimentScore : {-1, 0, 100, 101},
     maxSupply : {0, 1, 1000000, 1000001}]

\* validateConfig (helpers.ts 10-46): "ok", or the check that throws, in
\* the order of the code.
validateConfig(c) ==
    IF c.modelProvider = "" THEN "Eliza model provider is required"
    ELSE IF c.temperature < 0 \/ c.temperature > 100
         THEN "Eliza temperature must be between 0 and 1"
    ELSE IF c.programId = "" THEN "Solana program ID is required"
    ELSE IF c.cluster \notin {"devnet", "mainnet-beta", "testnet"}
         THEN "Invalid Solana cluster"
    ELSE IF c.username = "" \/ c.password = ""
         THEN "Twitter credentials are required"
    ELSE IF c.maxRepliesPerHour < 1 \/ c.maxRepliesPerHour > 100
         THEN "Max replies per hour must be between 1 and 100"
    ELSE IF c.minSentimentScore < 0 \/ c.minSentimentScore > 100
         THEN "Min sentiment score must be between 0 and 1"
    ELSE IF c.maxSupply < 1 \/ c.maxSupply > 1000000
         THEN "Max supply must be between 1M and 1T"
    ELSE "ok"

\* The components the constructor creates (lines 39-44).
Components == 6

\* Before the constructor has run there is no component and no timer
\* (timerDue = 0).
InitConfig ==
    /\ call \in [fn : {"new ElizaSolanaSDK"}, pc : {"called"}, config : RawConfigs,
                 components : {0}, error : {"none"}]
    /\ config = [maxRepliesPerHour |-> call.config.maxRepliesPerHour,
                 minSentimentScore |-> call.config.minSentimentScore]
    /\ clientReady = FALSE
    /\ now = StartTime
    /\ timerDue = 0
    /\ limiter = [hourlyReplyCount |-> 0, lastHourReset |-> StartTime,
                  replyHistory |-> [a \in Authors |-> NoReply]]
    /\ replies = [a \in Authors |-> 0]
    /\ replyLog = <<>>
    /\ hist = NoHistory
    /\ mint = NoMint
    /\ NewSDK

\* The constructor (ElizaSolanaSDK.ts 34-47): validateConfig, then the six
\* components; new MessageReplyHandler arms the hourly timer (line 22).
Construct ==
    /\ call.fn = "new ElizaSolanaSDK" /\ call.pc = "called"
    /\ LET checked == validateConfig(call.config)
       IN  IF checked = "ok"
           THEN /\ call' = [call EXCEPT !.pc = "constructed",
                                        !.components = Components]
                /\ timerDue' = now + HOUR
           ELSE /\ call' = [call EXCEPT !.pc = "threw", !.error = checked]
                /\ UNCHANGED timerDue
    /\ UNCHANGED <<config, clientReady, now, limiter, replies, replyLog, hist,
                   mintVars, sdkVars>>

\* TwitterBot.initialize (part_000 24-48): without the API keys it calls
\* initializeWithCredentials, which throws (line 273).
initializeTwitter(c) ==
    IF c.hasApiKeys THEN "ok" ELSE "Twitter API keys required for full functionality"

\* start() (52-70) on the constructed SDK: the three initialize() calls,
\* then what Start sets off.  elizaOk and solanaOk: createAgentRuntime and
\* connection.getVersion succeeded.
StartConstructed(elizaOk, solanaOk) ==
    /\ call.fn = "new ElizaSolanaSDK" /\ call.pc = "constructed"
    /\ LET failed == IF ~elizaOk THEN "agent runtime unavailable"
                     ELSE IF ~solanaOk THEN "cluster unreachable"
                     ELSE initializeTwitter(call.config)
       IN  IF failed = "ok"
           THEN /\ call' = [call EXCEPT !.pc = "started"]
                /\ clientReady' = TRUE
                /\ isRunning' = TRUE
                /\ isMonitoring' = TRUE
                /\ callbacks' = [mention |-> callbacks.mention + 1,
                                 trend |-> callbacks.trend + 1]
                /\ loops' = loops (+) SetToBag({[loop |-> "mention", pc |-> "search",
                                                 first |-> TRUE, left |-> 0]})
           ELSE /\ call' = [call EXCEPT !.pc = "startThrew", !.error = failed]
                /\ UNCHANGED <<clientReady, isRunning, isMonitoring, callbacks, loops>>
    /\ startCalls' = startCalls + 1
    /\ UNCHANGED <<config, limiterVars, mintVars, processedTweets, returnedIds, runs>>

\* The SDK from its construction on; the searches of the polling loops find
\* nothing or fail.
NextConfig ==
    \/ Construct
    \/ \E elizaOk \in BOOLEAN, solanaOk \in BOOLEAN : StartConstructed(elizaOk, solanaOk)
    \/ Stop
    \/ \E l \in BagToSet(loops), result \in SearchResults({{}}) :
            MentionSearchReturn(l, result)
    \/ \E l \in BagToSet(loops) : TimerFires(l)
    \/ \E l \in BagToSet(loops), result \in TrendResults : TrendListReturn(l, result)
    \/ \E l \in BagToSet(loops), result \in SearchResults({{}}) :
            TrendSearchReturn(l, result)

SpecConfig == InitConfig /\ [][NextConfig]_vars

\* The configurations C21 calls invalid.
InvalidConfig(c) ==
    \/ c.modelProvider = "" \/ c.programId = ""
    \/ c.username = "" \/ c.password = "" \/ ~c.hasApiKeys
    \/ c.temperature \notin 0..100
    \/ c.minSentimentScore \notin 0..100
    \/ c.maxRepliesPerHour \notin 1..100
    \/ c.maxSupply \notin 1..1000000
    \/ c.cluster \notin {"devnet", "mainnet-beta", "testnet"}

\* The errors that report the configuration.
ConfigurationErrors ==
    { "Eliza model provider is required",
      "Eliza temperature must be between 0 and 1",
      "Solana program ID is required",
      "Invalid Solana cluster",
      "Twitter credentials are required",
      "Max replies per hour must be between 1 and 100",
      "Min sentiment score must be between 0 and 1",
      "Max supply must be between 1M and 1T",
      "Twitter API keys required for full functionality" }

\* C21, as stated: the constructor throws on an invalid configuration
\* (a missing model provider, program id or platform credential, a
\* threshold out of its range, an unknown cluster) before it creates a
\* component or arms a timer; every running SDK has maxRepliesPerHour
\* between 1 and 100; and no configuration error is raised once the
\* constructor has returned.
C21_ConfigErrorsAtConstruction ==
    call.fn = "new ElizaSolanaSDK" =>
        /\ (call.pc # "called" /\ InvalidConfig(call.config))
              => /\ call.pc = "threw"
                 /\ call.components = 0
                 /\ timerDue = 0
                 /\ loops = EmptyBag
        /\ isRunning => config.maxRepliesPerHour \in 1..100
        /\ call.pc \in {"constructed", "started", "startThrew"}
              => call.error \notin ConfigurationErrors

---------------------------------------------------------------------------
(* helpers.ts: retry(fn, maxAttempts, baseDelay) called on its own         *)

\* Math.pow(2, n)
RECURSIVE Pow2(_)
Pow2(n) == IF n <= 0 THEN 1 ELSE 2 * Pow2(n - 1)

\* The calls of retry: maxAttempts from 0 to MaxAttempts, a base delay in
\* milliseconds.  outcomes records how each invocation of fn settled, waits
\* the delays slept; invocation k of fn resolves with value k or rejects
\* with error k; result 0 and error 0 stand for none (lastError is
\* unassigned).
RetryCalls ==
    [fn : {"retry"}, pc : {"called"}, maxAttempts : 0..MaxAttempts,
     baseDelay : {0, 1, 500, 1000}, attempt : {0}, outcomes : {<<>>},
     waits : {<<>>}, result : {0}, error : {0}]

InitRetry ==
    /\ config \in [maxRepliesPerHour : {1},
                   minSentimentScore : {DefaultMinSentiment}]
    /\ clientReady = FALSE
    /\ NewLimiter
    /\ NewSDK
    /\ mint = NoMint
    /\ call \in RetryCalls

\* The head of the for loop (line 177) with the loop variable at attempt:
\* fn is invoked (179), or the loop is left and lastError thrown (192).
loopHead(c, attempt) ==
    IF attempt <= c.maxAttempts
    THEN [c EXCEPT !.pc = "fn", !.attempt = attempt]
    ELSE [c EXCEPT !.pc = "threw", !.attempt = attempt]

\* retry is called: lines 170-179.
RetryBegins ==
    /\ call.fn = "retry" /\ call.pc = "called"
    /\ call' = loopHead(call, 1)
    /\ UNCHANGED <<config, clientReady, limiterVars, mintVars, sdkVars>>

\* The same, sleeping after the last attempt as after the others.
FnSettles_SleepsAfterLast(ok) ==
    /\ call.fn = "retry" /\ call.pc = "fn"
    /\ LET settled == [call EXCEPT !.outcomes = Append(@, ok)]
       IN  call' =
             IF ok
             THEN [settled EXCEPT !.pc = "returned", !.result = call.attempt]
             ELSE [settled EXCEPT
                     !.pc = "sleep",
                     !.error = call.attempt,
                     !.waits = Append(@, call.baseDelay * Pow2(call.attempt - 1))]
    /\ UNCHANGED <<config, clientReady, limiterVars, mintVars, sdkVars>>

\* The promise of fn settles (179-188): its value is returned, or its error
\* kept, and either thrown (the last attempt) or followed by a sleep.
FnSettles(ok) ==
    /\ call.fn = "retry" /\ call.pc = "fn"
    /\ LET settled == [call EXCEPT !.outcomes = Append(@, ok)]
       IN  call' =
             IF ok
             THEN [settled EXCEPT !.pc = "returned", !.result = call.attempt]
             ELSE IF call.attempt = call.maxAttempts
             THEN [settled EXCEPT !.pc = "threw", !.error = call.attempt]
             ELSE [settled EXCEPT
                     !.pc = "sleep",
                     !.error = call.attempt,
                     !.waits = Append(@, call.baseDelay * Pow2(call.attempt - 1))]
    /\ UNCHANGED <<config, clientReady, limiterVars, mintVars, sdkVars>>

\* The sleep ends (188): the next round of the loop.
SleepEnds ==
    /\ call.fn = "retry" /\ call.pc = "sleep"
    /\ call' = loopHead(call, call.attempt + 1)
    /\ UNCHANGED <<config, clientReady, limiterVars, mintVars, sdkVars>>

NextRetry ==
    \/ RetryBegins
    \/ \E ok \in BOOLEAN : FnSettles(ok)
    \/ SleepEnds

\* The promises of fn settle and the timers of sleep fire.
SpecRetry == InitRetry /\ [][NextRetry]_vars /\ WF_vars(NextRetry)

\* The invocations of fn made so far.
Invocations == Len(call.outcomes)

RetryDone == call.pc \in {"returned", "threw"}

\* C24: retry ends after at most maxAttempts invocations of fn; it returns
\* the value of the first invocation that succeeds and invokes fn no more;
\* when all maxAttempts invocations fail it throws the error of the last;
\* before attempt k+1 it waits baseDelay * 2^(k-1), and it does not wait
\* after the last failed attempt.
C24_RetryBounded ==
    /\ [](call.fn = "retry" =>
            /\ Invocations <= call.maxAttempts
            /\ \A k \in 1..Len(call.waits) :
                  call.waits[k] = call.baseDelay * Pow2(k - 1)
            /\ call.pc = "fn" => Len(call.waits) = call.attempt - 1
            /\ call.pc = "returned"
                  => /\ call.outcomes[Invocations]
                     /\ \A k \in 1..(Invocations - 1) : ~call.outcomes[k]
                     /\ call.result = Invocations
                     /\ Len(call.waits) = Invocations - 1
            /\ (call.pc = "threw" /\ call.maxAttempts >= 1)
                  => /\ Invocations = call.maxAttempts
                     /\ \A k \in 1..Invocations : ~call.outcomes[k]
                     /\ call.error = call.maxAttempts
                     /\ Len(call.waits) = call.maxAttempts - 1)
    /\ [][RetryDone => call' = call]_vars
    /\ <>RetryDone

\* retry threw the error of its last invocation after three failures and
\* two waits, of one and of two base delays.
C24_Witness ==
    /\ call.fn = "retry" /\ call.pc = "threw"
    /\ call.maxAttempts = 3
    /\ call.error = 3
    /\ call.waits = <<1000, 2000>>

=============================================================================
